---------------------------- MODULE Spec2Model ----------------------------
(***************************************************************************)
(* A model of purego's foreign-function call path: RegisterFunc's          *)
(* bind-time capacity check, the per-call construction of the register /   *)
(* stack image (addInt, addFloat, addStack, addStruct), and the string     *)
(* marshaller cString.                                                     *)
(*                                                                         *)
(* A machine word (uintptr, uint64) is a tuple of 8 bytes, least           *)
(* significant byte first; every shift in the code is a multiple of 8      *)
(* bits, so byte granularity loses nothing.                                *)
(***************************************************************************)
EXTENDS Integers, Sequences, FiniteSets, TLC

VARIABLES
    GOARCH,     \* runtime.GOARCH of the build target
    GOOS,       \* runtime.GOOS of the build target
    impl,       \* which amd64 addStruct is linked: "func.go" or "struct_amd64.go"
    ty,         \* the function type behind fptr: [In |-> <<types>>, Out |-> <<types>>]
    fptrKind,   \* the kind of what fptr points to: ty.Kind()
    cfn,        \* the address given to RegisterFunc, a word
    bound,      \* "unbound", "bound" (fn.Set ran) or "panic" (RegisterFunc panicked)
    bindErr,    \* the panic message of RegisterFunc, "" when none
    pc,         \* position of the one call in flight: "idle", "args", "raw" (in the
                \* native function), "ret" (decoding the result), "done", "panic"
    args,       \* the call's argument values
    argi,       \* index (1-based) of the next argument of the range loop
    sysargs,    \* [maxArgs]uintptr, indexed from 0
    floats,     \* [numOfFloats]uintptr, indexed from 0
    numInts, numFloats, numStack,
    keepAlive,  \* the call's keep-alive list (addresses of buffers)
    heap,       \* allocated buffers: address -> contents
    callErr,    \* the panic message of the call, "" when none
    r1, r2,     \* the raw return slots
    result,     \* what the closure returned: <<>> (nil) or <<v>>
    dlfile,     \* which file's cString / Dlsym is linked: "dlfcn.go" or "dl_darwin.go"
    dlpc,       \* position of Dlsym: "idle", "cstr", "called", "done"
    name,       \* Dlsym's argument: a host string (a sequence of bytes), stored at NameAddr
    bs,         \* cString's result: the address of the buffer's first byte (0: not yet)
    gpc,        \* position of the worker in callc or call5: "idle", "callc", "entered",
                \* "native", "returned", "call5"
    insyscall,  \* the scheduler has been told that the worker is in a foreign call
    enters,     \* number of runtime_entersyscall calls so far
    exits,      \* number of runtime_exitsyscall calls so far
    natives,    \* number of native functions started so far
    gret,       \* what the last native function returned
    frames,     \* the locals of the closure's invocations in flight, by frame
    linker,     \* the dynamic linker's table and the Dl calls made so far
    imp,        \* objc.IMP's argument and how the call ended
    cpu         \* syscall9X's machine state: registers, stack, position

vars == <<GOARCH, GOOS, impl, ty, bound, bindErr, pc, args, argi, sysargs, floats,
          numInts, numFloats, numStack, keepAlive, heap, callErr, r1, r2,
          dlfile, dlpc, name, bs, fptrKind, cfn, result,
          gpc, insyscall, enters, exits, natives, gret, frames, linker, imp, cpu>>

-----------------------------------------------------------------------------
(* Bounds of the model.                                                    *)

\* longest run of leading integer-kind parameters of a scalar signature
MaxLeadInts == 12
\* longest run of float-kind parameters following them
MaxLeadFloats == 9
\* longest freely interleaved tail of a scalar signature
MaxMixed == 3

-----------------------------------------------------------------------------
(* Program constants.                                                      *)

\* the length of sysargs: syscall15Args takes sysargs[0] .. sysargs[14]
maxArgs == 15
\* the length of floats: syscall15Args takes floats[0] .. floats[7]
numOfFloats == 8

numOfIntegerRegisters ==
    CASE GOARCH = "arm64" -> 8
      [] GOARCH = "amd64" -> 6

-----------------------------------------------------------------------------
(* Words and bytes.                                                        *)

Byte == 0..255

RECURSIVE BitOr(_, _)
BitOr(a, b) ==
    IF a = 0 THEN b
    ELSE IF b = 0 THEN a
    ELSE (IF a % 2 = 1 \/ b % 2 = 1 THEN 1 ELSE 0) + 2 * BitOr(a \div 2, b \div 2)

Rep(x, n) == [j \in 1..n |-> x]

ZeroWord == Rep(0, 8)

\* uintptr(v.Uint()): zero extension of a little-endian byte string to 64 bits
ZExt(b) == [j \in 1..8 |-> IF j <= Len(b) THEN b[j] ELSE 0]

\* uintptr(v.Int()): sign extension to 64 bits
SExt(b) ==
    LET fill == IF Len(b) > 0 /\ b[Len(b)] >= 128 THEN 255 ELSE 0
    IN  [j \in 1..8 |-> IF j <= Len(b) THEN b[j] ELSE fill]

\* val | (x << shift) on uint64, x given by its bytes, shift in bits (a
\* multiple of 8); bits shifted past bit 63 are lost
OrShift(val, b, shift) ==
    LET k == shift \div 8
    IN  [j \in 1..8 |-> BitOr(val[j], IF j - k \in 1..Len(b) THEN b[j - k] ELSE 0)]

\* a small word holding the natural number n < 256
WordOf(n) == ZExt(<<n>>)

\* a float32 is a NaN: exponent bits 23..30 all ones, mantissa not zero
IsNaN32(b) ==
    /\ b[4] % 128 = 127
    /\ b[3] >= 128
    /\ (b[3] % 128 # 0 \/ b[2] # 0 \/ b[1] # 0)

\* the widening and narrowing leave every bit as it is
Float32Via64_exact(b) == b

\* a float32 widened to float64 and narrowed again, as float32(v.Float())
\* reads a float32 Value and SetFloat(float64(f)) stores one: the two
\* conversions keep the value, and a NaN comes out quiet (bit 22 set)
Float32Via64(b) == IF IsNaN32(b) THEN [b EXCEPT ![3] = BitOr(@, 64)] ELSE b

-----------------------------------------------------------------------------
(* Types and values (reflect.Type, reflect.Value).                         *)
(* A scalar is [kind, v, elems |-> <<>>] with v its bytes; a struct or an   *)
(* array is [kind, v |-> <<>>, elems] with elems its fields or elements.    *)
(* A type is the value whose scalars have v = <<>>.                        *)

SignedKinds   == {"int", "int8", "int16", "int32", "int64"}
UnsignedKinds == {"uintptr", "uint", "uint8", "uint16", "uint32", "uint64"}
\* "[]interface{}" is the slice type the call expands when it is the last
\* argument; its reflect.Kind is Slice like that of every other slice type,
\* and a value of it carries its elements in elems
PointerKinds  == {"ptr", "unsafeptr", "slice", "[]interface{}"}
FloatKinds    == {"float32", "float64"}
\* the kinds of the first case of RegisterFunc's bind-time switch
IntegerClassKinds ==
    {"string", "func", "bool"} \cup SignedKinds \cup UnsignedKinds \cup PointerKinds

T(kind) == [kind |-> kind, v |-> <<>>, elems |-> <<>>]
V(kind, bytes) == [kind |-> kind, v |-> bytes, elems |-> <<>>]
StructOf(fields) == [kind |-> "struct", v |-> <<>>, elems |-> fields]
ArrayOf(elems) == [kind |-> "array", v |-> <<>>, elems |-> elems]

KindSize(kind) ==
    CASE kind \in {"int8", "uint8", "bool"} -> 1
      [] kind \in {"int16", "uint16"} -> 2
      [] kind \in {"int32", "uint32", "float32"} -> 4
      [] kind \in {"int", "uint", "int64", "uint64", "uintptr", "float64",
                   "ptr", "unsafeptr", "func"} -> 8
      [] kind = "string" -> 16
      [] kind \in {"slice", "[]interface{}"} -> 24

Max(a, b) == IF a >= b THEN a ELSE b
AlignUp(n, a) == ((n + a - 1) \div a) * a

RECURSIVE Align(_)
RECURSIVE AlignMax(_, _)
Align(t) ==
    CASE t.kind = "struct" -> AlignMax(t.elems, 1)
      [] t.kind = "array"  -> IF t.elems = <<>> THEN 1 ELSE Align(t.elems[1])
      [] OTHER -> IF KindSize(t.kind) > 8 THEN 8 ELSE KindSize(t.kind)
AlignMax(fs, i) ==
    IF i > Len(fs) THEN 1 ELSE Max(Align(fs[i]), AlignMax(fs, i + 1))

\* Type.Size(): Go lays the fields out in order, each at its alignment, and
\* rounds the size up to the alignment of the struct
RECURSIVE Size(_)
RECURSIVE EndOffset(_, _, _)
Size(t) ==
    CASE t.kind = "struct" -> AlignUp(EndOffset(t.elems, 1, 0), Align(t))
      [] t.kind = "array"  -> IF t.elems = <<>> THEN 0 ELSE Len(t.elems) * Size(t.elems[1])
      [] OTHER -> KindSize(t.kind)
EndOffset(fs, i, off) ==
    IF i > Len(fs) THEN off
    ELSE EndOffset(fs, i + 1, AlignUp(off, Align(fs[i])) + Size(fs[i]))

\* reflect.New(t).Elem(): the zero value of a type
RECURSIVE Zero(_)
Zero(t) ==
    IF t.kind \in {"struct", "array"}
    THEN [t EXCEPT !.elems = [j \in 1..Len(t.elems) |-> Zero(t.elems[j])]]
    ELSE [t EXCEPT !.v = Rep(0, KindSize(t.kind))]

\* Value.Type()
RECURSIVE TypeOf(_)
TypeOf(x) ==
    IF x.kind \in {"struct", "array"}
    THEN [x EXCEPT !.elems = [j \in 1..Len(x.elems) |-> TypeOf(x.elems[j])]]
    ELSE [x EXCEPT !.v = <<>>]

-----------------------------------------------------------------------------
(* The call image and the three sets of closures over it.                  *)
(* conv = "sysv": the closures of the SysV / AAPCS64 branch of the call;   *)
(* conv = "win":  the closures of the positional branch of the call;       *)
(* conv = "count": the counting closures of the bind-time check, where     *)
(* numInts, numFloats, numStack are its locals ints, floats, stack.        *)
(* err # "" records a panic: the handler unwinds, nothing else is written. *)

NoErr == ""
ErrIndex == "runtime error: index out of range"
ErrKind == "purego: unsupported kind"
ErrTooMany == "purego: too many arguments"
ErrStructTarget == "purego: struct arguments are only supported on macOS amd64 & arm64"
ErrHang == "no return: the loop does not terminate"

Raise(img, e) == IF img.err = NoErr THEN [img EXCEPT !.err = e] ELSE img

\* addStack = func(x) { stack[numStack] = x; numStack++ }, with
\* stack := sysargs[numOfIntegerRegisters():]
addStack_sysv(img, x) ==
    IF img.numStack >= maxArgs - numOfIntegerRegisters
    THEN Raise(img, ErrIndex)
    ELSE [img EXCEPT !.sysargs[numOfIntegerRegisters + img.numStack] = x,
                     !.numStack = @ + 1]

\* addInt that drops the value once the integer registers are full
addInt_sysv_drop(img, x) ==
    IF img.numInts >= numOfIntegerRegisters
    THEN img
    ELSE [img EXCEPT !.sysargs[img.numInts] = x, !.numInts = @ + 1]

addInt_sysv(img, x) ==
    IF img.numInts >= numOfIntegerRegisters
    THEN addStack_sysv(img, x)
    ELSE [img EXCEPT !.sysargs[img.numInts] = x, !.numInts = @ + 1]

\* addFloat with the register bound off by one
addFloat_sysv_short(img, x) ==
    IF img.numFloats < numOfFloats - 1
    THEN [img EXCEPT !.floats[img.numFloats] = x, !.numFloats = @ + 1]
    ELSE addStack_sysv(img, x)

addFloat_sysv(img, x) ==
    IF img.numFloats < numOfFloats
    THEN [img EXCEPT !.floats[img.numFloats] = x, !.numFloats = @ + 1]
    ELSE addStack_sysv(img, x)

\* addStack = func(x) { sysargs[numStack] = x; numStack++ }
addStack_win(img, x) ==
    IF img.numStack >= maxArgs
    THEN Raise(img, ErrIndex)
    ELSE [img EXCEPT !.sysargs[img.numStack] = x, !.numStack = @ + 1]

addInt_count(img, x) == [img EXCEPT !.numInts = @ + 1]
addFloat_count(img, x) == [img EXCEPT !.numFloats = @ + 1]
addStack_count(img, x) == [img EXCEPT !.numStack = @ + 1]

addStack(img, x) ==
    IF img.err # NoErr THEN img
    ELSE CASE img.conv = "sysv"  -> addStack_sysv(img, x)
           [] img.conv = "win"   -> addStack_win(img, x)
           [] img.conv = "count" -> addStack_count(img, x)

addInt(img, x) ==
    IF img.err # NoErr THEN img
    ELSE CASE img.conv = "sysv"  -> addInt_sysv(img, x)
           [] img.conv = "win"   -> addStack_win(img, x)
           [] img.conv = "count" -> addInt_count(img, x)

\* addFloat that uses the float registers under every convention
addFloat_always_sysv(img, x) ==
    IF img.err # NoErr THEN img
    ELSE CASE img.conv = "sysv"  -> addFloat_sysv(img, x)
           [] img.conv = "win"   -> addFloat_sysv(img, x)
           [] img.conv = "count" -> addFloat_count(img, x)

addFloat(img, x) ==
    IF img.err # NoErr THEN img
    ELSE CASE img.conv = "sysv"  -> addFloat_sysv(img, x)
           [] img.conv = "win"   -> addStack_win(img, x)
           [] img.conv = "count" -> addFloat_count(img, x)

\* the image a call starts from: var sysargs [maxArgs]uintptr, var floats
\* [numOfFloats]uintptr, the three counters 0, keepAlive nil
NewImage(conv, h) ==
    [conv |-> conv,
     sysargs |-> [j \in 0..(maxArgs - 1) |-> ZeroWord],
     floats |-> [j \in 0..(numOfFloats - 1) |-> ZeroWord],
     numInts |-> 0, numFloats |-> 0, numStack |-> 0,
     keepAlive |-> <<>>, heap |-> h, err |-> NoErr]

\* the convention the call closure selects
CallConv == IF GOARCH = "arm64" \/ GOOS # "windows" THEN "sysv" ELSE "win"

-----------------------------------------------------------------------------
(* addStruct, SysV (amd64), as in struct_amd64.go.                         *)

NO_CLASS == 0
SSE == 1
INTEGER == 7

\* the locals of addStruct that the closure place updates
NewScan(v, img) ==
    [val |-> ZeroWord, shift |-> 0, flushed |-> FALSE, class |-> NO_CLASS,
     placedOnStack |-> Size(TypeOf(v)) > 8 * 8, img |-> img]

\* if class == SSE { addFloat(uintptr(val)) } else { addInt(uintptr(val)) }
Emit(st) ==
    IF st.class = SSE THEN addFloat(st.img, st.val) ELSE addInt(st.img, st.val)

\* Pack that ignores shift: every field lands at bit 0
Pack_unshifted(st, b, width, cls) ==
    [st EXCEPT !.val = OrShift(@, b, 0),
               !.shift = (@ + width) % 256,
               !.class = BitOr(@, cls)]

\* val |= bits << shift; shift += width; class |= cls
Pack(st, b, width, cls) ==
    [st EXCEPT !.val = OrShift(@, b, st.shift),
               !.shift = (@ + width) % 256,
               !.class = BitOr(@, cls)]

\* if shift >= 64 { shift = 0; flushed = true; emit val; class = NO_CLASS }
FlushAt64(st) ==
    IF st.shift >= 64
    THEN [st EXCEPT !.shift = 0, !.flushed = TRUE, !.img = Emit(st), !.class = NO_CLASS]
    ELSE st

\* the loop of the closure place over the fields (or elements) of v, from
\* the i-th on; "break loop" leaves this loop only
RECURSIVE place(_, _, _)

\* the switch on f.Kind() for f the i-th field of v, then the rest of the loop
placeSwitch(v, i, f, s) ==
    CASE f.kind \in {"struct", "array"} -> place(v, i + 1, place(f, 1, s))
      [] f.kind = "bool" ->
           place(v, i + 1,
                 [s EXCEPT !.val = IF f.v[1] # 0 THEN OrShift(@, <<1>>, 0) ELSE @,
                           !.shift = (@ + 8) % 256,
                           !.class = BitOr(@, INTEGER)])
      [] f.kind = "ptr" -> [s EXCEPT !.placedOnStack = TRUE]
      [] f.kind \in {"int8", "uint8"}   -> place(v, i + 1, Pack(s, f.v, 8, INTEGER))
      [] f.kind \in {"int16", "uint16"} -> place(v, i + 1, Pack(s, f.v, 16, INTEGER))
      [] f.kind \in {"int32", "uint32"} -> place(v, i + 1, Pack(s, f.v, 32, INTEGER))
      [] f.kind \in {"int", "int64", "uint", "uint64"} ->
           place(v, i + 1, [s EXCEPT !.img = addInt(s.img, f.v),
                                     !.shift = 0, !.class = NO_CLASS])
      [] f.kind = "float32" -> place(v, i + 1, Pack(s, Float32Via64(f.v), 32, SSE))
      [] f.kind = "float64" ->
           IF Size(TypeOf(v)) > 16
           THEN [s EXCEPT !.placedOnStack = TRUE]
           ELSE place(v, i + 1, [s EXCEPT !.img = addFloat(s.img, f.v),
                                          !.class = NO_CLASS])
      [] OTHER -> [s EXCEPT !.img = Raise(s.img, ErrKind)]

place(v, i, st) ==
    IF st.img.err # NoErr \/ i > Len(v.elems) THEN st
    ELSE placeSwitch(v, i, v.elems[i], FlushAt64(st))

\* the closure placeStack over the fields of the struct v, from the i-th on
RECURSIVE placeStack(_, _, _)
placeStack(v, i, img) ==
    IF img.err # NoErr \/ i > Len(v.elems) THEN img
    ELSE
      LET f == v.elems[i]
      IN  CASE f.kind = "ptr" -> placeStack(v, i + 1, addStack(img, f.v))
            [] f.kind \in SignedKinds -> placeStack(v, i + 1, addStack(img, SExt(f.v)))
            [] f.kind \in UnsignedKinds \ {"uintptr"} ->
                 placeStack(v, i + 1, addStack(img, ZExt(f.v)))
            [] f.kind = "float32" -> placeStack(v, i + 1, addStack(img, ZExt(Float32Via64(f.v))))
            [] f.kind = "float64" -> placeStack(v, i + 1, addStack(img, f.v))
            [] f.kind = "struct" -> placeStack(v, i + 1, placeStack(f, 1, img))
            [] OTHER -> Raise(img, ErrKind)

\* *numFloats = savedNumFloats; *numInts = savedNumInts; *numStack = savedNumStack
Rollback(img, saved) ==
    IF img.err # NoErr THEN img
    ELSE [img EXCEPT !.numFloats = saved.numFloats,
                     !.numInts = saved.numInts,
                     !.numStack = saved.numStack]

\* the end of addStruct: the trailing flush, and the stack placement by the
\* loop onStack when placedOnStack was set
finishScan(st, onStackImg) ==
    IF st.img.err # NoErr THEN st.img
    ELSE IF st.placedOnStack THEN onStackImg
    ELSE IF ~st.flushed THEN Emit(st)
    ELSE st.img

\* the image Rollback starts from: the trailing flush has run before it
beforeRollback(st) == IF ~st.flushed THEN Emit(st) ELSE st.img

scanned_amd64(v, img, st) ==
    finishScan(st, placeStack(v, 1, Rollback(beforeRollback(st), img)))

addStruct_amd64(v, img) ==
    IF Size(TypeOf(v)) = 0 THEN img
    ELSE scanned_amd64(v, img, place(v, 1, NewScan(v, img)))

-----------------------------------------------------------------------------
(* addStruct, the amd64 branch in func.go (flat field loop).               *)

ErrArrayKind == "purego: unsupported array kind"

\* for k := 0; k < arraySize; k++ { addFloat(bits of f.Index(k)) }
RECURSIVE addFloatElems(_, _, _)
addFloatElems(f, k, img) ==
    IF k > Len(f.elems) THEN img
    ELSE addFloatElems(f, k + 1,
                       addFloat(img, ZExt(IF f.elems[k].kind = "float32"
                                          THEN Float32Via64(f.elems[k].v)
                                          ELSE f.elems[k].v)))

\* for k = i; k < arraySize; k++ { val |= elm << ((k - i) * (8 * sizeInBytes)) }
\* with i0 the (0-based) index of the field loop and k0 a 0-based element index
RECURSIVE packElems(_, _, _, _)
packElems(f, i0, k0, val) ==
    IF k0 >= Len(f.elems) THEN val
    ELSE packElems(f, i0, k0 + 1,
                   OrShift(val, f.elems[k0 + 1].v,
                           (k0 - i0) * 8 * KindSize(f.elems[k0 + 1].kind)))

PackedArrayKinds == {"uint8", "uint16", "uint32", "int8", "int16", "int32"}

\* if shift+byte(f.Type().Size())*8 > 64 { ... }, in byte arithmetic
FlushBefore(st, f) ==
    IF (st.shift + (((Size(TypeOf(f)) % 256) * 8) % 256)) % 256 > 64
    THEN [st EXCEPT !.shift = 0, !.flushed = TRUE, !.img = Emit(st), !.class = NO_CLASS]
    ELSE st

\* the field loop of the amd64 branch, from the field with 0-based index i0 on
RECURSIVE fieldLoop(_, _, _)

\* case reflect.Array of the field switch, then the rest of the loop
arrayCase(v, i0, f, s) ==
    IF f.elems = <<>>
    THEN [s EXCEPT !.img = Raise(s.img, ErrIndex)]   \* f.Index(0)
    ELSE
      CASE f.elems[1].kind \in FloatKinds ->
             fieldLoop(v, i0 + 1, [s EXCEPT !.img = addFloatElems(f, 1, s.img)])
        [] f.elems[1].kind \in PackedArrayKinds ->
             IF i0 < Len(f.elems)
             THEN \* k ends at arraySize; i = k - 1; then i++
                  fieldLoop(v, Len(f.elems),
                            [s EXCEPT !.img = addInt(s.img, packElems(f, i0, i0, ZeroWord))])
             ELSE \* k stays i; i = k - 1; then i++: the same field again
                  IF s.img.conv = "count"
                  THEN [s EXCEPT !.img = Raise(s.img, ErrHang)]
                  ELSE fieldLoop(v, i0, [s EXCEPT !.img = addInt(s.img, ZeroWord)])
        [] OTHER -> [s EXCEPT !.img = Raise(s.img, ErrArrayKind)]

\* the switch on f.Kind(), then the rest of the loop
fieldSwitch(v, i0, f, s) ==
    CASE f.kind = "ptr" -> [s EXCEPT !.placedOnStack = TRUE]
      [] f.kind \in {"int8", "uint8"}   -> fieldLoop(v, i0 + 1, Pack(s, f.v, 8, INTEGER))
      [] f.kind \in {"int16", "uint16"} -> fieldLoop(v, i0 + 1, Pack(s, f.v, 16, INTEGER))
      [] f.kind \in {"int32", "uint32"} -> fieldLoop(v, i0 + 1, Pack(s, f.v, 32, INTEGER))
      [] f.kind \in {"int", "int64", "uint", "uint64"} ->
           fieldLoop(v, i0 + 1, [s EXCEPT !.img = addInt(s.img, f.v),
                                          !.shift = 0, !.class = NO_CLASS])
      [] f.kind = "float32" -> fieldLoop(v, i0 + 1, Pack(s, Float32Via64(f.v), 32, SSE))
      [] f.kind = "float64" ->
           IF Size(TypeOf(v)) > 16
           THEN [s EXCEPT !.placedOnStack = TRUE]
           ELSE fieldLoop(v, i0 + 1, [s EXCEPT !.img = addFloat(s.img, f.v),
                                               !.class = NO_CLASS])
      [] f.kind = "array" -> arrayCase(v, i0, f, s)
      [] OTHER -> [s EXCEPT !.img = Raise(s.img, ErrKind)]

fieldLoop(v, i0, st) ==
    IF st.img.err # NoErr \/ i0 >= Len(v.elems) THEN st
    ELSE fieldSwitch(v, i0, v.elems[i0 + 1], FlushBefore(st, v.elems[i0 + 1]))

\* the second field loop of the amd64 branch (placedOnStack), from the i-th field on
RECURSIVE stackLoop(_, _, _)
stackLoop(v, i, img) ==
    IF img.err # NoErr \/ i > Len(v.elems) THEN img
    ELSE
      LET f == v.elems[i]
      IN  CASE f.kind = "ptr" -> stackLoop(v, i + 1, addStack(img, f.v))
            [] f.kind \in SignedKinds -> stackLoop(v, i + 1, addStack(img, SExt(f.v)))
            [] f.kind \in UnsignedKinds \ {"uintptr"} ->
                 stackLoop(v, i + 1, addStack(img, ZExt(f.v)))
            [] f.kind = "float32" -> stackLoop(v, i + 1, addStack(img, ZExt(Float32Via64(f.v))))
            [] f.kind = "float64" -> stackLoop(v, i + 1, addStack(img, f.v))
            [] OTHER -> Raise(img, ErrKind)

scanned_func_amd64(v, img, st) ==
    finishScan(st, stackLoop(v, 1, Rollback(beforeRollback(st), img)))

addStruct_func_amd64(v, img) ==
    IF Size(TypeOf(v)) = 0 THEN img
    ELSE scanned_func_amd64(v, img, fieldLoop(v, 0, NewScan(v, img)))

-----------------------------------------------------------------------------
(* addStruct, the arm64 branch in func.go (AAPCS64).                       *)

\* (val + 7) &^ 7
roundUpTo8(val) == ((val + 7) \div 8) * 8

AllOfKind(t, kind) == \A i \in 1..Len(t.elems) : t.elems[i].kind = kind

isHFA(t) ==
    LET structSize == roundUpTo8(Size(t))
    IN  IF structSize = 0 \/ Len(t.elems) > 4 THEN FALSE
        ELSE LET first == t.elems[1]
             IN  CASE first.kind \in {"float32", "float64"} -> AllOfKind(t, first.kind)
                   [] first.kind = "array" ->
                        \* first.Type.Elem().Kind()
                        first.elems # <<>> /\ first.elems[1].kind \in {"float32", "float64"}
                   [] OTHER -> FALSE

SmallIntKinds == {"uint8", "uint16", "uint32", "int8", "int16", "int32"}

isHVA(t) ==
    LET structSize == roundUpTo8(Size(t))
    IN  IF structSize = 0 \/ (structSize # 8 /\ structSize # 16) THEN FALSE
        ELSE LET first == t.elems[1]
             IN  CASE first.kind \in SmallIntKinds -> AllOfKind(t, first.kind)
                   [] first.kind = "array" ->
                        first.elems # <<>> /\ first.elems[1].kind \in SmallIntKinds
                   [] OTHER -> FALSE

\* if shift >= 64 { shift = 0; flushed = true; addInt(uintptr(val)) }
Flush64(st) ==
    IF st.shift >= 64
    THEN [st EXCEPT !.shift = 0, !.flushed = TRUE, !.img = addInt(st.img, st.val)]
    ELSE st

\* the scalar cases shared by the field switch and the array-element switch
ScalarCase(st, f) ==
    CASE f.kind \in {"uint8", "int8"} ->
           [st EXCEPT !.val = OrShift(@, f.v, st.shift), !.shift = (@ + 8) % 256]
      [] f.kind \in {"uint16", "int16"} ->
           [st EXCEPT !.val = OrShift(@, f.v, st.shift), !.shift = (@ + 16) % 256]
      [] f.kind \in {"uint32", "int32"} ->
           [st EXCEPT !.val = OrShift(@, f.v, st.shift), !.shift = (@ + 32) % 256]
      [] f.kind \in {"uint64", "int64"} ->
           [st EXCEPT !.img = addInt(st.img, f.v), !.shift = 0]
      [] f.kind = "float32" -> [st EXCEPT !.img = addFloat(st.img, ZExt(Float32Via64(f.v)))]
      [] f.kind = "float64" -> [st EXCEPT !.img = addFloat(st.img, f.v)]
      [] OTHER -> [st EXCEPT !.img = Raise(st.img, ErrKind)]

\* the loop over the elements of the array field f, from the i-th on; st
\* holds arrayVal, arrayShift, arrayFlushed and the image
RECURSIVE elemLoop(_, _, _)
elemLoop(f, i, st) ==
    IF st.img.err # NoErr \/ i > Len(f.elems) THEN st
    ELSE elemLoop(f, i + 1, ScalarCase(Flush64(st), f.elems[i]))

\* if !flushed { addInt(uintptr(val)) }
flushLast(st) == IF ~st.flushed THEN addInt(st.img, st.val) ELSE st.img

NewLoop(img) == [val |-> ZeroWord, shift |-> 0, flushed |-> FALSE, img |-> img]

\* the loop over the fields of v, from the k-th on
RECURSIVE fieldLoop_arm64(_, _, _)

fieldCase_arm64(v, k, f, s) ==
    IF f.kind = "array"
    THEN fieldLoop_arm64(v, k + 1,
                         [s EXCEPT !.img = flushLast(elemLoop(f, 1, NewLoop(s.img)))])
    ELSE fieldLoop_arm64(v, k + 1, ScalarCase(s, f))

fieldLoop_arm64(v, k, st) ==
    IF st.img.err # NoErr \/ k > Len(v.elems) THEN st
    ELSE fieldCase_arm64(v, k, v.elems[k], Flush64(st))

\* the first address reflect.New has not handed out yet
NextAddr(h) == IF DOMAIN h = {} THEN 1 ELSE 1 + CHOOSE a \in DOMAIN h : \A b \in DOMAIN h : b <= a

\* if hfa && *numFloats+v.NumField() > numOfFloats { *numFloats = numOfFloats }
\* else if hva && *numInts+v.NumField() > numOfIntegerRegisters() { ... }
allOrNothing(v, img, hva, hfa) ==
    IF hfa /\ img.numFloats + Len(v.elems) > numOfFloats
    THEN [img EXCEPT !.numFloats = numOfFloats]
    ELSE IF hva /\ img.numInts + Len(v.elems) > numOfIntegerRegisters
    THEN [img EXCEPT !.numInts = numOfIntegerRegisters]
    ELSE img

\* by reference without the copy: the pointer is the address of v itself
byReference_alias(v, img, ptr) ==
    IF \E a \in DOMAIN img.heap : img.heap[a] = v
    THEN addInt([img EXCEPT !.keepAlive =
                                Append(@, CHOOSE a \in DOMAIN img.heap : img.heap[a] = v)],
                WordOf(CHOOSE a \in DOMAIN img.heap : img.heap[a] = v))
    ELSE addInt([img EXCEPT !.heap = ptr :> v @@ @, !.keepAlive = Append(@, ptr)],
                WordOf(ptr))

\* ptrStruct := reflect.New(v.Type()); ptrStruct.Elem().Set(v);
\* keepAlive = append(keepAlive, ptr); addInt(uintptr(ptr))
byReference(v, img, ptr) ==
    addInt([img EXCEPT !.heap = ptr :> v @@ @, !.keepAlive = Append(@, ptr)],
           WordOf(ptr))

addStruct_arm64(v, img) ==
    IF img.err # NoErr THEN img
    ELSE IF isHVA(TypeOf(v)) \/ isHFA(TypeOf(v)) \/ Size(TypeOf(v)) <= 16
    THEN flushLast(fieldLoop_arm64(v, 1,
            NewLoop(allOrNothing(v, img, isHVA(TypeOf(v)), isHFA(TypeOf(v))))))
    ELSE byReference(v, img, NextAddr(img.heap))

ErrAlloc == "purego: struct has field that can't be allocated"

addStruct(v, img) ==
    CASE GOARCH = "arm64" -> addStruct_arm64(v, img)
      [] GOARCH = "amd64" /\ impl = "struct_amd64.go" -> addStruct_amd64(v, img)
      [] GOARCH = "amd64" /\ impl = "func.go" -> addStruct_func_amd64(v, img)
      [] OTHER -> Raise(img, ErrAlloc)

-----------------------------------------------------------------------------
(* RegisterFunc: the bind-time check.                                      *)

ErrNumOut == "purego: function can only return zero or one values"
ErrNotModelled == "argument kind outside the model"

\* the loop "for i := 0; i < ty.NumIn(); i++" from the i-th parameter on;
\* c is a "count" image holding ints, floats and stack
RECURSIVE checkArgs(_, _, _)
checkArgs(in, i, c) ==
    IF c.err # NoErr \/ i > Len(in) THEN c
    ELSE
      LET arg == in[i]
      IN  CASE arg.kind \in IntegerClassKinds ->
                 checkArgs(in, i + 1,
                           IF c.numInts < numOfIntegerRegisters
                           THEN [c EXCEPT !.numInts = @ + 1]
                           ELSE [c EXCEPT !.numStack = @ + 1])
            [] arg.kind \in FloatKinds ->
                 checkArgs(in, i + 1,
                           IF c.numFloats < numOfFloats
                           THEN [c EXCEPT !.numFloats = @ + 1]
                           ELSE [c EXCEPT !.numStack = @ + 1])
            [] arg.kind = "struct" ->
                 IF GOOS # "darwin" \/ (GOARCH # "amd64" /\ GOARCH # "arm64")
                 THEN Raise(c, ErrStructTarget)
                 ELSE IF Size(arg) = 0
                 THEN checkArgs(in, i + 1, c)
                 ELSE checkArgs(in, i + 1, addStruct(Zero(arg), c))
            [] OTHER -> Raise(c, ErrKind)

\* the panic message of RegisterFunc for the function type t, NoErr when it
\* reaches fn.Set(v)
\* the capacity check against maxArgs instead of sizeOfStack
bindResult_maxArgs(t, c) ==
    IF Len(t.Out) > 1 THEN ErrNumOut
    ELSE IF c.err # NoErr THEN c.err
    ELSE IF c.numStack > maxArgs THEN ErrTooMany
    ELSE NoErr

bindResult(t, c) ==
    IF Len(t.Out) > 1 THEN ErrNumOut
    ELSE IF c.err # NoErr THEN c.err
    ELSE IF c.numStack > maxArgs - numOfIntegerRegisters THEN ErrTooMany
    ELSE NoErr

RegisterFuncErr(t) == bindResult(t, checkArgs(t.In, 1, NewImage("count", <<>>)))

callVars == <<pc, args, argi, sysargs, floats, numInts, numFloats, numStack,
              keepAlive, heap, callErr, r1, r2, result>>
bindVars == <<fptrKind, cfn>>
gateVars == <<gpc, insyscall, enters, exits, natives, gret>>

nativeVars == <<linker, imp, cpu>>
targetVars == <<GOARCH, GOOS, impl>>
dlVars == <<dlfile, dlpc, name, bs>>

\* a function type as a type record: its parameter and result lists are the
\* fields of two structs in elems; T("func") is func()
FuncOf(in, out) ==
    [kind |-> "func", v |-> <<>>, elems |-> <<StructOf(in), StructOf(out)>>]
FuncSig(t) ==
    IF t.elems = <<>> THEN [In |-> <<>>, Out |-> <<>>]
    ELSE [In |-> t.elems[1].elems, Out |-> t.elems[2].elems]

ErrNotFunc == "purego: fptr must be a function pointer"
ErrCfnNil == "purego: cfn is nil"

\* RegisterFunc without the test of cfn
RegisterFuncPanic_anyCfn(k, t, c) ==
    IF k # "func" THEN ErrNotFunc
    ELSE IF Len(t.Out) > 1 THEN ErrNumOut
    ELSE RegisterFuncErr(t)

\* the panic message of RegisterFunc(fptr, c), fptr pointing to a value of
\* kind k and, when k is "func", of function type t; NoErr when it reaches
\* fn.Set(v)
RegisterFuncPanic(k, t, c) ==
    IF k # "func" THEN ErrNotFunc
    ELSE IF Len(t.Out) > 1 THEN ErrNumOut
    ELSE IF c = ZeroWord THEN ErrCfnNil
    ELSE RegisterFuncErr(t)

RegisterFunc ==
    /\ bound = "unbound"
    /\ bindErr' = RegisterFuncPanic(fptrKind, ty, cfn)
    /\ bound' = IF bindErr' = NoErr THEN "bound" ELSE "panic"
    /\ UNCHANGED <<ty, callVars, targetVars, dlVars, bindVars, gateVars, frames, nativeVars>>

-----------------------------------------------------------------------------
(* A call through the bound function (the closure given to MakeFunc).      *)

\* the image held in the closure's locals
Image ==
    [conv |-> CallConv, sysargs |-> sysargs, floats |-> floats,
     numInts |-> numInts, numFloats |-> numFloats, numStack |-> numStack,
     keepAlive |-> keepAlive, heap |-> heap, err |-> NoErr]

\* the caller's argument values live at the addresses 1 .. len(args)
ArgHeap(a) == [k \in 1..Len(a) |-> a[k]]

\* the arguments as they are: the last one is not expanded
expand_unexpanded(a) == a

\* if variadic, ok := args[len(args)-1].Interface().([]interface{}); ok {
\*   tmp := make([]reflect.Value, len(args)-1+len(variadic))
\*   n := copy(tmp, args[:len(args)-1])
\*   for i, v := range variadic { tmp[n+i] = reflect.ValueOf(v) }
\*   args = tmp }
expand(a) ==
    IF Len(a) > 0 /\ a[Len(a)].kind = "[]interface{}"
    THEN [j \in 1..(Len(a) - 1 + Len(a[Len(a)].elems)) |->
            IF j <= Len(a) - 1 THEN a[j] ELSE a[Len(a)].elems[j - (Len(a) - 1)]]
    ELSE a

\* the closure up to the range loop: the expansion of a last []interface{}
\* argument, fresh sysargs, floats, counters, keepAlive
CallBegin(a) ==
    /\ bound = "bound"
    /\ pc = "idle"
    /\ args' = expand(a)
    /\ argi' = 1
    /\ sysargs' = [j \in 0..(maxArgs - 1) |-> ZeroWord]
    /\ floats' = [j \in 0..(numOfFloats - 1) |-> ZeroWord]
    /\ numInts' = 0
    /\ numFloats' = 0
    /\ numStack' = 0
    /\ keepAlive' = <<>>
    /\ heap' = ArgHeap(a)
    /\ pc' = "args"
    /\ UNCHANGED <<ty, bound, bindErr, callErr, r1, r2, result, targetVars, dlVars,
                   bindVars, gateVars, frames, nativeVars>>

\* one iteration of "for _, v := range args": the switch on v.Kind()
argCase(v, img) ==
    CASE v.kind \in UnsignedKinds -> addInt(img, ZExt(v.v))
      [] v.kind \in SignedKinds -> addInt(img, SExt(v.v))
      [] v.kind \in PointerKinds -> addInt(img, v.v)
      [] v.kind = "bool" -> IF v.v[1] # 0 THEN addInt(img, WordOf(1)) ELSE addInt(img, WordOf(0))
      [] v.kind = "float32" -> addFloat(img, ZExt(Float32Via64(v.v)))
      [] v.kind = "float64" -> addFloat(img, v.v)
      [] v.kind = "struct" -> addStruct(v, img)
      [] v.kind \in {"string", "func"} -> Raise(img, ErrNotModelled)
      [] OTHER -> Raise(img, ErrKind)

\* the closure's locals after the iteration left the image img
storeImage(img) ==
    /\ sysargs' = img.sysargs
    /\ floats' = img.floats
    /\ numInts' = img.numInts
    /\ numFloats' = img.numFloats
    /\ numStack' = img.numStack
    /\ keepAlive' = img.keepAlive
    /\ heap' = img.heap
    /\ callErr' = img.err
    /\ pc' = IF img.err = NoErr THEN "args" ELSE "panic"
    /\ argi' = IF img.err = NoErr THEN argi + 1 ELSE argi

CallArg ==
    /\ pc = "args"
    /\ argi <= Len(args)
    /\ storeImage(argCase(args[argi], Image))
    /\ UNCHANGED <<ty, bound, bindErr, args, r1, r2, result, targetVars, dlVars,
                   bindVars, gateVars, frames, nativeVars>>

\* the values a native function may leave in a return slot
RetWords == {ZeroWord, WordOf(1)}

\* the closure reaches the raw call, runtime_cgocall(syscall15XABI0, &syscall)
\* or syscall_syscall15X(cfn, sysargs[0], ...): the native function starts on
\* the image
RawCall ==
    /\ pc = "args"
    /\ argi > Len(args)
    /\ pc' = "raw"
    /\ UNCHANGED <<ty, bound, bindErr, args, argi, sysargs, floats, numInts,
                   numFloats, numStack, keepAlive, heap, callErr, r1, r2, result,
                   targetVars, dlVars, bindVars, gateVars, frames, nativeVars>>

\* the native function returns and leaves its results, words of R:
\* r1, r2 = syscall.r1, syscall.r2
RawReturn(R) ==
    /\ pc = "raw"
    /\ r1' \in R
    /\ r2' \in R
    /\ pc' = "ret"
    /\ UNCHANGED <<ty, bound, bindErr, args, argi, sysargs, floats, numInts,
                   numFloats, numStack, keepAlive, heap, callErr, result,
                   targetVars, dlVars, bindVars, gateVars, frames, nativeVars>>

\* the low n bytes of a word: the truncation of SetUint and SetInt to the
\* width of the kind, uint32(r2)
Low(w, n) == [j \in 1..n |-> w[j]]

ErrRetKind == "purego: unsupported return kind: "

Decoded(v) == [err |-> NoErr, v |-> <<v>>]
DecodePanic(e) == [err |-> e, v |-> <<>>]

\* the float kinds read the integer slot
floatSlot_r1(a, b) == a

\* the slot the float kinds are decoded from: r2
floatSlot(a, b) == b

\* case reflect.Func: v = reflect.New(outType); RegisterFunc(v.Interface(), r1)
decodeFunc(out, a) ==
    IF RegisterFuncPanic("func", FuncSig(out), a) # NoErr
    THEN DecodePanic(RegisterFuncPanic("func", FuncSig(out), a))
    ELSE Decoded([kind |-> "func", v |-> a, elems |-> out.elems])

\* the switch on outType.Kind(), a and b the slots r1 and r2
decode(out, a, b) ==
    CASE out.kind \in UnsignedKinds -> Decoded(V(out.kind, Low(a, KindSize(out.kind))))
      [] out.kind \in SignedKinds -> Decoded(V(out.kind, Low(a, KindSize(out.kind))))
      [] out.kind = "bool" -> Decoded(V("bool", <<IF a[1] # 0 THEN 1 ELSE 0>>))
      [] out.kind \in {"unsafeptr", "ptr"} -> Decoded(V(out.kind, a))
      [] out.kind = "func" -> decodeFunc(out, a)
      [] out.kind = "string" -> DecodePanic(ErrNotModelled)
      [] out.kind = "float32" ->
           Decoded(V("float32", Float32Via64(Low(floatSlot(a, b), 4))))
      [] out.kind = "float64" -> Decoded(V("float64", floatSlot(a, b)))
      [] OTHER -> DecodePanic(ErrRetKind)

\* if ty.NumOut() == 0 { return nil }; otherwise the result decoded by its kind
decodeReturn(out, a, b) ==
    IF Len(out) = 0 THEN [err |-> NoErr, v |-> <<>>] ELSE decode(out[1], a, b)

\* the closure from the raw call's return to its own return or panic; the
\* deferred function runs on both ways out
CallReturn ==
    /\ pc = "ret"
    /\ result' = decodeReturn(ty.Out, r1, r2).v
    /\ callErr' = decodeReturn(ty.Out, r1, r2).err
    /\ pc' = IF callErr' = NoErr THEN "done" ELSE "panic"
    /\ UNCHANGED <<ty, bound, bindErr, args, argi, sysargs, floats, numInts,
                   numFloats, numStack, keepAlive, heap, r1, r2,
                   targetVars, dlVars, bindVars, gateVars, frames, nativeVars>>

-----------------------------------------------------------------------------
(* Spec: calls with scalar arguments on the three conventions.             *)

ScalarTargets ==
    {[arch |-> "amd64", os |-> "darwin"],
     [arch |-> "arm64", os |-> "darwin"],
     [arch |-> "amd64", os |-> "windows"]}

\* the concrete kinds the signatures cycle through, by parameter position
IntKindList == <<"int64", "uint8", "int32", "uintptr", "int8", "ptr", "uint16", "int">>
FloatKindList == <<"float64", "float32">>

KindAt(class, pos) ==
    IF class = "i"
    THEN IntKindList[((pos - 1) % Len(IntKindList)) + 1]
    ELSE FloatKindList[((pos - 1) % Len(FloatKindList)) + 1]

\* all sequences over {"i", "f"} of length at most n
ClassSeqs(n) == UNION {[1..k -> {"i", "f"}] : k \in 0..n}

\* a signature: a integer-kind parameters, then b float-kind ones, then a
\* freely interleaved tail
ScalarSigs ==
    {[In |-> [k \in 1..Len(cs) |-> T(KindAt(cs[k], k))], Out |-> <<>>] :
        cs \in {Rep("i", a) \o Rep("f", b) \o m :
                   a \in 0..MaxLeadInts, b \in 0..MaxLeadFloats, m \in ClassSeqs(MaxMixed)}}

\* the value passed for the parameter at position pos: its position, negated
\* for the signed kinds, so that every argument of a call is distinct
ArgValue(t, pos) ==
    LET n == IF t.kind \in PointerKinds THEN 8 ELSE KindSize(t.kind)
    IN  IF t.kind \in SignedKinds
        THEN V(t.kind, [j \in 1..n |-> IF j = 1 THEN 256 - pos ELSE 255])
        ELSE V(t.kind, [j \in 1..n |-> IF j = 1 THEN pos ELSE 0])

ScalarArgs(t) == [k \in 1..Len(t.In) |-> ArgValue(t.In[k], k)]

\* fptr points to a function variable and cfn is an address
FuncPointer ==
    /\ fptrKind = "func"
    /\ cfn = WordOf(1)

IdleCall ==
    /\ pc = "idle"
    /\ args = <<>>
    /\ argi = 0
    /\ sysargs = [j \in 0..(maxArgs - 1) |-> ZeroWord]
    /\ floats = [j \in 0..(numOfFloats - 1) |-> ZeroWord]
    /\ numInts = 0
    /\ numFloats = 0
    /\ numStack = 0
    /\ keepAlive = <<>>
    /\ heap = <<>>
    /\ callErr = NoErr
    /\ r1 = ZeroWord
    /\ r2 = ZeroWord
    /\ result = <<>>

IdleGate ==
    /\ gpc = "idle"
    /\ insyscall = FALSE
    /\ enters = 0
    /\ exits = 0
    /\ natives = 0
    /\ gret = ZeroWord

\* no Dl call has been made, objc.IMP and syscall9X are not running
IdleNative ==
    /\ linker = <<>>
    /\ imp = <<>>
    /\ cpu = <<>>

IdleDl ==
    /\ dlfile = "dlfcn.go"
    /\ dlpc = "idle"
    /\ name = <<>>
    /\ bs = 0

Init ==
    /\ \E tg \in ScalarTargets : GOARCH = tg.arch /\ GOOS = tg.os
    /\ impl = "struct_amd64.go"
    /\ ty \in ScalarSigs
    /\ bound = "unbound"
    /\ bindErr = NoErr
    /\ FuncPointer
    /\ IdleCall
    /\ IdleGate
    /\ IdleNative
    /\ frames = <<>>
    /\ IdleDl

Next ==
    \/ RegisterFunc
    \/ CallBegin(ScalarArgs(ty))
    \/ CallArg
    \/ RawCall
    \/ RawReturn(RetWords)
    \/ CallReturn

Spec == Init /\ [][Next]_vars

-----------------------------------------------------------------------------
(* Notions the claims about scalar arguments are stated with.              *)

IsIntArg(v) == v.kind \in IntegerClassKinds
IsFloatArg(v) == v.kind \in FloatKinds

\* the word a scalar argument is passed as
SlotOf(v) ==
    CASE v.kind \in SignedKinds -> SExt(v.v)
      [] v.kind = "float64" -> v.v
      [] v.kind \in PointerKinds -> v.v
      [] OTHER -> ZExt(v.v)

\* how many of a[1..k] are integer-kind (float-kind)
IntRank(a, k) == Cardinality({j \in 1..k : IsIntArg(a[j])})
FloatRank(a, k) == Cardinality({j \in 1..k : IsFloatArg(a[j])})

\* a[k] finds the registers of its class full
Overflows(a, k) ==
    \/ IsIntArg(a[k]) /\ IntRank(a, k) > numOfIntegerRegisters
    \/ IsFloatArg(a[k]) /\ FloatRank(a, k) > numOfFloats

OverflowIdx(a) == {k \in 1..Len(a) : Overflows(a, k)}

\* the position in a of its j-th overflowing argument
NthOverflow(a, j) ==
    CHOOSE k \in OverflowIdx(a) : Cardinality({i \in OverflowIdx(a) : i <= k}) = j

\* the range loop of the call is over and did not panic
AllArgsPlaced ==
    pc \in {"args", "raw", "ret", "done"} /\ argi > Len(args) /\ callErr = NoErr

Untouched(f, from, to) == \A j \in from..to : f[j] = ZeroWord

\* a float-kind argument directly followed by an integer-kind one
Interleaved(a) == \E k \in 1..(Len(a) - 1) : IsFloatArg(a[k]) /\ IsIntArg(a[k + 1])

-----------------------------------------------------------------------------
\* C1: on the SysV/AAPCS64 targets a call with N integer-kind and M float-kind
\* scalar arguments, N and M within the register counts, in any interleaved
\* order, writes exactly the N values to sysargs[0..N-1] and the M values to
\* floats[0..M-1], each class in argument order, and leaves numStack 0.
C1_ScalarsFillRegisters ==
    LET ints == SelectSeq(args, IsIntArg)
        flts == SelectSeq(args, IsFloatArg)
    IN  (/\ CallConv = "sysv"
         /\ AllArgsPlaced
         /\ Len(ints) <= numOfIntegerRegisters
         /\ Len(flts) <= numOfFloats)
        => /\ numInts = Len(ints)
           /\ numFloats = Len(flts)
           /\ numStack = 0
           /\ \A j \in 1..Len(ints) : sysargs[j - 1] = SlotOf(ints[j])
           /\ \A j \in 1..Len(flts) : floats[j - 1] = SlotOf(flts[j])
           /\ Untouched(sysargs, Len(ints), maxArgs - 1)
           /\ Untouched(floats, Len(flts), numOfFloats - 1)

\* a finished call that fills every integer and every float register, with
\* float and integer arguments interleaved
C1_Witness ==
    /\ CallConv = "sysv"
    /\ pc = "done"
    /\ Len(SelectSeq(args, IsIntArg)) = numOfIntegerRegisters
    /\ Len(SelectSeq(args, IsFloatArg)) = numOfFloats
    /\ Interleaved(args)
    /\ numStack = 0

\* C2: on the SysV/AAPCS64 targets, when k scalar arguments find the registers
\* of their class full, exactly those k values are on the stack, at stack
\* indices 0..k-1 in their original left-to-right order; none is dropped and
\* none is in a register slot.
C2_OverflowOnStackInOrder ==
    LET ints == SelectSeq(args, IsIntArg)
        flts == SelectSeq(args, IsFloatArg)
        k == Cardinality(OverflowIdx(args))
    IN  (CallConv = "sysv" /\ AllArgsPlaced)
        => /\ numStack = k
           /\ \A j \in 1..k :
                 sysargs[numOfIntegerRegisters + j - 1] = SlotOf(args[NthOverflow(args, j)])
           /\ Untouched(sysargs, numOfIntegerRegisters + k, maxArgs - 1)
           /\ \A j \in 1..Len(ints) :
                 j <= numOfIntegerRegisters => sysargs[j - 1] = SlotOf(ints[j])
           /\ \A j \in 1..Len(flts) :
                 j <= numOfFloats => floats[j - 1] = SlotOf(flts[j])

\* a finished call whose stack holds an overflowing float directly followed
\* by an overflowing integer
C2_Witness ==
    /\ CallConv = "sysv"
    /\ pc = "done"
    /\ numStack >= 3
    /\ \E j \in 1..(numStack - 1) :
          /\ IsFloatArg(args[NthOverflow(args, j)])
          /\ IsIntArg(args[NthOverflow(args, j + 1)])

\* C3: on the SysV/AAPCS64 targets RegisterFunc panics with "too many
\* arguments" exactly when more than maxArgs - numOfIntegerRegisters() scalar
\* arguments overflow the registers; in every call of an accepted signature
\* the three counters stay within the image, no write falls outside it, and
\* every argument processed so far is counted in one of them.
C3_TooManyExactAndCountersBounded ==
    CallConv = "sysv" =>
       /\ bound # "unbound" =>
             (bindErr = ErrTooMany
                <=> Cardinality(OverflowIdx(ty.In)) > maxArgs - numOfIntegerRegisters)
       /\ bound # "unbound" => bindErr \in {NoErr, ErrTooMany}
       /\ pc # "idle" =>
             /\ callErr = NoErr
             /\ numInts <= numOfIntegerRegisters
             /\ numFloats <= numOfFloats
             /\ numStack <= maxArgs - numOfIntegerRegisters
             /\ numInts + numFloats + numStack = argi - 1

\* a finished call whose overflow fills the stack buffer to its last slot
C3_Witness ==
    /\ CallConv = "sysv"
    /\ pc = "done"
    /\ numInts = numOfIntegerRegisters
    /\ numStack = maxArgs - numOfIntegerRegisters
    /\ sysargs[maxArgs - 1] # ZeroWord

\* a signature rejected with exactly one overflowing argument too many
C3_RejectedAtBoundary ==
    /\ CallConv = "sysv"
    /\ bindErr = ErrTooMany
    /\ Cardinality(OverflowIdx(ty.In)) = maxArgs - numOfIntegerRegisters + 1

\* C4: under the positional convention the k-th argument (from 0) is in
\* sysargs[k], whatever the kinds of the arguments before it.
C4_PositionalSlots ==
    (CallConv = "win" /\ pc \in {"args", "raw", "ret", "done", "panic"})
        => /\ \A k \in 1..(argi - 1) : sysargs[k - 1] = SlotOf(args[k])
           /\ Untouched(sysargs, argi - 1, maxArgs - 1)
           /\ Untouched(floats, 0, numOfFloats - 1)
           /\ numStack = argi - 1

\* a finished positional call with floats before integers
C4_Witness ==
    /\ CallConv = "win"
    /\ pc = "done"
    /\ Len(args) >= 4
    /\ IsFloatArg(args[1])
    /\ Interleaved(args)

\* C5, as claimed: under the positional convention every signature that needs
\* more than maxArgs slots is rejected at bind time, so no call of an accepted
\* signature writes past sysargs.
C5_PositionalRejectsOverflow ==
    CallConv = "win" =>
       /\ bound = "bound" => Len(ty.In) <= maxArgs
       /\ callErr # ErrIndex

-----------------------------------------------------------------------------
(* SpecStruct: calls with one struct argument among scalar arguments, on   *)
(* darwin/amd64 (with either addStruct) and darwin/arm64.                  *)

\* most integer-kind parameters before the struct parameter
MaxPreInts == 8
\* most float-kind parameters between them and the struct parameter
MaxPreFloats == 8
\* number of byte patterns the argument values are drawn from
MaxPattern == 2

Fields(kinds) == [j \in 1..Len(kinds) |-> T(kinds[j])]
S(kinds) == StructOf(Fields(kinds))

U8x4F32 == S(<<"uint8", "uint8", "uint8", "uint8", "float32">>)
PtrOnly == S(<<"ptr">>)
I64Ptr == S(<<"int64", "ptr">>)
PtrI64 == S(<<"ptr", "int64">>)
F32x2Ptr == S(<<"float32", "float32", "ptr">>)
I64x9 == S(Rep("int64", 9))
I64x8I8 == S(Rep("int64", 8) \o <<"int8">>)
F64x9 == S(Rep("float64", 9))
U8x2ArrPtr == StructOf(<<ArrayOf(Fields(<<"uint8", "uint8">>)), T("ptr")>>)
NestedPtr == StructOf(<<S(<<"int32", "ptr">>), T("int64")>>)
F32x1 == S(<<"float32">>)
F32x2 == S(<<"float32", "float32">>)
F64x3 == S(<<"float64", "float64", "float64">>)
F64x4 == S(<<"float64", "float64", "float64", "float64">>)
F32x4 == S(<<"float32", "float32", "float32", "float32">>)
I64x3 == S(<<"int64", "int64", "int64">>)
I64F64x2 == S(<<"int64", "float64", "float64">>)
F64I64x2 == S(<<"float64", "int64", "int64">>)
F64x5 == S(Rep("float64", 5))
I32x2 == S(<<"int32", "int32">>)
I64x2 == S(<<"int64", "int64">>)
F64I64 == S(<<"float64", "int64">>)
Empty == S(<<>>)

StructTypes ==
    {U8x4F32, PtrOnly, I64Ptr, PtrI64, F32x2Ptr, I64x9, I64x8I8, F64x9, U8x2ArrPtr,
     NestedPtr, F32x1, F32x2, F64x3, F64x4, F32x4, I64x3, I64F64x2, F64I64x2, F64x5,
     I32x2, I64x2, F64I64, Empty}

StructTargets ==
    {[arch |-> "amd64", impl |-> "func.go"],
     [arch |-> "amd64", impl |-> "struct_amd64.go"],
     [arch |-> "arm64", impl |-> "func.go"]}

\* the parameters after the struct parameter
Tails == {<<>>, <<T("int64")>>, <<T("float64")>>}

StructSigs ==
    {[In |-> Fields(Rep("int64", a) \o Rep("float64", b)) \o <<st>> \o tl, Out |-> <<>>] :
        a \in 0..MaxPreInts, b \in 0..MaxPreFloats, st \in StructTypes, tl \in Tails}

RECURSIVE LeafCount(_)
RECURSIVE LeafCountTo(_, _)
\* the number of scalar leaves of a type
LeafCount(t) ==
    IF t.kind \in {"struct", "array"} THEN LeafCountTo(t.elems, Len(t.elems)) ELSE 1
\* the number of scalar leaves of the first j of the fields fs
LeafCountTo(fs, j) ==
    IF j = 0 THEN 0 ELSE LeafCountTo(fs, j - 1) + LeafCount(fs[j])

\* byte j of leaf n of the argument at position k, under pattern p
LeafByte(k, n, j, p) == (k * 37 + n * 11 + j + (p - 1) * 128) % 256

\* a value of type t for the argument at position k: its leaves, numbered
\* from n + 1 in field order, are filled with the bytes of pattern p
RECURSIVE Fill(_, _, _, _)
Fill(t, k, n, p) ==
    IF t.kind \in {"struct", "array"}
    THEN [t EXCEPT !.elems =
             [j \in 1..Len(t.elems) |->
                 Fill(t.elems[j], k, n + LeafCountTo(t.elems, j - 1), p)]]
    ELSE IF t.kind = "bool"
    THEN V(t.kind, <<(k + n + p) % 2>>)
    ELSE V(t.kind, [j \in 1..(IF t.kind \in PointerKinds THEN 8 ELSE KindSize(t.kind)) |->
                       LeafByte(k, n + 1, j, p)])

PatternArgs(t, p) == [k \in 1..Len(t.In) |-> Fill(t.In[k], k, 0, p)]

InitStruct ==
    /\ \E tg \in StructTargets : GOARCH = tg.arch /\ impl = tg.impl
    /\ GOOS = "darwin"
    /\ ty \in StructSigs
    /\ bound = "unbound"
    /\ bindErr = NoErr
    /\ FuncPointer
    /\ IdleCall
    /\ IdleGate
    /\ IdleNative
    /\ frames = <<>>
    /\ IdleDl

NextStruct ==
    \/ RegisterFunc
    \/ \E p \in 1..MaxPattern : CallBegin(PatternArgs(ty, p))
    \/ CallArg
    \/ RawCall
    \/ RawReturn(RetWords)
    \/ CallReturn

SpecStruct == InitStruct /\ [][NextStruct]_vars

-----------------------------------------------------------------------------
(* Notions the claims about struct arguments are stated with.  The primed  *)
(* ones describe one iteration of the range loop of the call.              *)

\* the iteration that processes a struct argument is about to run
AtStruct == pc = "args" /\ argi <= Len(args) /\ args[argi].kind = "struct"

\* the iteration returned: no panic
Returned == pc' = "args" /\ argi' = argi + 1

\* the words the iteration added to the integer registers, the float
\* registers and the stack
NewInts == [j \in 1..(numInts' - numInts) |-> sysargs'[numInts + j - 1]]
NewFloats == [j \in 1..(numFloats' - numFloats) |-> floats'[numFloats + j - 1]]
NewStack ==
    [j \in 1..(numStack' - numStack) |-> sysargs'[numOfIntegerRegisters + numStack + j - 1]]

\* the slots that were in use before the iteration are as they were
KeepsUsed ==
    /\ \A j \in 0..(numInts - 1) : sysargs'[j] = sysargs[j]
    /\ \A j \in 0..(numFloats - 1) : floats'[j] = floats[j]
    /\ \A j \in 0..(numStack - 1) :
          sysargs'[numOfIntegerRegisters + j] = sysargs[numOfIntegerRegisters + j]

\* the scalar leaves of a value, in field order
RECURSIVE Leaves(_)
RECURSIVE LeavesFrom(_, _)
Leaves(v) == IF v.kind \in {"struct", "array"} THEN LeavesFrom(v.elems, 1) ELSE <<v>>
LeavesFrom(fs, i) == IF i > Len(fs) THEN <<>> ELSE Leaves(fs[i]) \o LeavesFrom(fs, i + 1)

LeafSlots(v) == [j \in 1..Len(Leaves(v)) |-> SlotOf(Leaves(v)[j])]

HasPointer(v) == \E j \in 1..Len(Leaves(v)) : Leaves(v)[j].kind = "ptr"

\* reading the fields fs from the i-th on out of a word, the i-th at byte off
RECURSIVE Unpack(_, _, _, _)
Unpack(w, fs, i, off) ==
    IF i > Len(fs) THEN <<>>
    ELSE <<SubSeq(w, off + 1, off + KindSize(fs[i].kind))>>
            \o Unpack(w, fs, i + 1, off + KindSize(fs[i].kind))

FieldBytes(v) == [j \in 1..Len(v.elems) |-> v.elems[j].v]

\* a struct type with k <= 4 fields, all float32 or all float64
FlatHFA(t) ==
    /\ t.kind = "struct"
    /\ Len(t.elems) \in 1..4
    /\ t.elems[1].kind \in FloatKinds
    /\ \A j \in 1..Len(t.elems) : t.elems[j].kind = t.elems[1].kind

\* a struct type larger than 16 bytes that is neither an HFA nor an HVA
ByReferenceType(t) == t.kind = "struct" /\ Size(t) > 16 /\ ~isHFA(t) /\ ~isHVA(t)

-----------------------------------------------------------------------------
C7_PointerOrBigOnStack ==
    [][(/\ GOARCH = "amd64"
        /\ AtStruct
        /\ (HasPointer(args[argi]) \/ Size(TypeOf(args[argi])) > 64)
        /\ Returned)
       => /\ numInts' = numInts
          /\ numFloats' = numFloats
          /\ NewStack = LeafSlots(args[argi])
          /\ KeepsUsed]_vars

\* C7 for the addStruct of struct_amd64.go alone
C7_PointerOrBigOnStack_struct_amd64 ==
    [][(/\ GOARCH = "amd64"
        /\ impl = "struct_amd64.go"
        /\ AtStruct
        /\ (HasPointer(args[argi]) \/ Size(TypeOf(args[argi])) > 64)
        /\ Returned)
       => /\ numInts' = numInts
          /\ numFloats' = numFloats
          /\ NewStack = LeafSlots(args[argi])
          /\ KeepsUsed]_vars

\* a struct with a pointer behind an array field was passed by the addStruct
\* of func.go: two integer registers taken, nothing on the stack
C7_PointerStructInRegisters ==
    /\ GOARCH = "amd64"
    /\ impl = "func.go"
    /\ pc = "done"
    /\ Len(args) = 1
    /\ TypeOf(args[1]) = U8x2ArrPtr
    /\ numInts = 2
    /\ numStack = 0

\* a struct with a pointer field was rolled back and passed on the stack
C7_RolledBack ==
    /\ GOARCH = "amd64"
    /\ pc = "done"
    /\ Len(args) = 1
    /\ TypeOf(args[1]) = I64Ptr
    /\ numInts = 0
    /\ numStack = 2
    /\ sysargs[0] # ZeroWord

\* C8, as claimed: on arm64 a struct of k <= 4 fields of one float kind takes
\* the next k float registers in field order and no integer register and no
\* stack slot when k float registers are free; otherwise every field goes to
\* the stack, no float register is written and none is left for later
\* arguments.
C8_HFAAllOrNothing ==
    [][(/\ GOARCH = "arm64"
        /\ AtStruct
        /\ FlatHFA(TypeOf(args[argi]))
        /\ Returned)
       => IF numFloats + Len(args[argi].elems) <= numOfFloats
          THEN /\ numFloats' = numFloats + Len(args[argi].elems)
               /\ NewFloats = LeafSlots(args[argi])
               /\ numInts' = numInts
               /\ numStack' = numStack
               /\ sysargs' = sysargs
               /\ KeepsUsed
          ELSE /\ numFloats' = numOfFloats
               /\ floats' = floats
               /\ NewStack = LeafSlots(args[argi])
               /\ numInts' = numInts
               /\ KeepsUsed]_vars

\* on arm64 a struct {float32, float32} passed as the only argument has taken
\* an integer register
C8_HFATakesIntegerRegister ==
    /\ GOARCH = "arm64"
    /\ pc = "done"
    /\ Len(args) = 1
    /\ TypeOf(args[1]) = F32x2
    /\ numFloats = 2
    /\ numInts = 1

-----------------------------------------------------------------------------
(* cString, Dlopen and Dlsym, as in dlfcn.go and in dl_darwin.go.          *)
(* A host string is a sequence of bytes; the heap maps the address of a    *)
(* buffer to its bytes.                                                    *)

\* longest host string handed to Dlopen or Dlsym
MaxStrLen == 3

\* the address of the bytes of the caller's string
NameAddr == 1

\* len(s) >= len(suffix) && s[len(s)-len(suffix):] == suffix
hasSuffix(s, suffix) ==
    Len(s) >= Len(suffix) /\ SubSeq(s, Len(s) - Len(suffix) + 1, Len(s)) = suffix

\* make([]byte, n)
make(n) == Rep(0, n)

\* copy(b, s): the first min(len(b), len(s)) bytes of b become those of s
copy(b, s) == [j \in 1..Len(b) |-> IF j <= Len(s) THEN s[j] ELSE b[j]]

\* b := make([]byte, len(name)); copy(b, name); return &b[0]
cString_dlfcn_short(n, h) ==
    IF hasSuffix(n, <<0>>)
    THEN [bs |-> NameAddr, heap |-> h]
    ELSE [bs |-> NextAddr(h), heap |-> NextAddr(h) :> copy(make(Len(n)), n) @@ h]

\* cString of dlfcn.go: a string ending in NUL is passed by the address of
\* its own bytes, any other is copied into a buffer one byte longer
cString_dlfcn(n, h) ==
    IF hasSuffix(n, <<0>>)
    THEN [bs |-> NameAddr, heap |-> h]
    ELSE [bs |-> NextAddr(h), heap |-> NextAddr(h) :> copy(make(Len(n) + 1), n) @@ h]

\* cString of dl_darwin.go: []byte(name) is a new slice holding a copy
cString_dl_darwin(n, h) ==
    IF hasSuffix(n, <<0>>)
    THEN [bs |-> NextAddr(h), heap |-> NextAddr(h) :> n @@ h]
    ELSE [bs |-> NextAddr(h), heap |-> NextAddr(h) :> copy(make(Len(n) + 1), n) @@ h]

cString(n, h) ==
    IF dlfile = "dlfcn.go" THEN cString_dlfcn(n, h) ELSE cString_dl_darwin(n, h)

\* the locals of Dlopen / Dlsym after bs := cString(name)
storeCString(c) == bs' = c.bs /\ heap' = c.heap

\* Dlopen(name, mode) up to the raw call SyscallN(dlopenABI0, bs, mode, 0)
Dlopen(n) ==
    /\ dlpc = "idle"
    /\ name' = n
    /\ storeCString(cString(n, NameAddr :> n))
    /\ dlpc' = "dlopen"
    /\ UNCHANGED <<ty, bound, bindErr, pc, args, argi, sysargs, floats, numInts,
                   numFloats, numStack, keepAlive, callErr, r1, r2, result, dlfile,
                   targetVars, bindVars, gateVars, frames, nativeVars>>

\* Dlsym(handle, name) up to the raw call SyscallN(dlsymABI0, handle, bs, 0)
Dlsym(n) ==
    /\ dlpc = "idle"
    /\ name' = n
    /\ storeCString(cString(n, NameAddr :> n))
    /\ dlpc' = "dlsym"
    /\ UNCHANGED <<ty, bound, bindErr, pc, args, argi, sysargs, floats, numInts,
                   numFloats, numStack, keepAlive, callErr, r1, r2, result, dlfile,
                   targetVars, bindVars, gateVars, frames, nativeVars>>

\* the raw call returns ret; runtime.KeepAlive(bs); return ret
DlReturn ==
    /\ dlpc \in {"dlopen", "dlsym"}
    /\ r1' \in RetWords
    /\ dlpc' = "done"
    /\ UNCHANGED <<ty, bound, bindErr, pc, args, argi, sysargs, floats, numInts,
                   numFloats, numStack, keepAlive, heap, callErr, r2, result, dlfile,
                   name, bs, targetVars, bindVars, gateVars, frames, nativeVars>>

\* the bytes a host string is made of
StrBytes == {0, 97, 98}

\* the host strings of length at most MaxStrLen
DlNames == UNION {[1..k -> StrBytes] : k \in 0..MaxStrLen}

InitStr ==
    /\ GOARCH \in {"amd64", "arm64"}
    /\ GOOS = "darwin"
    /\ impl = "struct_amd64.go"
    /\ ty = [In |-> <<>>, Out |-> <<>>]
    /\ bound = "unbound"
    /\ bindErr = NoErr
    /\ FuncPointer
    /\ IdleCall
    /\ IdleGate
    /\ IdleNative
    /\ frames = <<>>
    /\ dlfile \in {"dlfcn.go", "dl_darwin.go"}
    /\ dlpc = "idle"
    /\ name = <<>>
    /\ bs = 0

NextStr ==
    \/ \E n \in DlNames : Dlopen(n)
    \/ \E n \in DlNames : Dlsym(n)
    \/ DlReturn

SpecStr == InitStr /\ [][NextStr]_vars

-----------------------------------------------------------------------------
\* C10: a host string that does not end in a NUL byte reaches the native
\* function as a buffer of len(s)+1 bytes, the first len(s) equal to s and the
\* last 0, for the empty string and for strings with NUL bytes inside as
\* well; the bytes of the caller's string are as they were.
C10_CStringAppendsNul ==
    (dlpc \in {"dlopen", "dlsym", "done"} /\ ~hasSuffix(name, <<0>>))
       => /\ bs \in DOMAIN heap
          /\ Len(heap[bs]) = Len(name) + 1
          /\ SubSeq(heap[bs], 1, Len(name)) = name
          /\ heap[bs][Len(name) + 1] = 0
          /\ heap[NameAddr] = name

\* Dlsym has passed a string with a NUL byte inside and none at its end
C10_Witness ==
    /\ dlpc = "done"
    /\ name = <<97, 0, 98>>
    /\ heap[bs] = <<97, 0, 98, 0>>

\* Dlopen is in its raw call with the empty string: a buffer of one 0 byte
C10_EmptyString ==
    /\ dlpc = "dlopen"
    /\ name = <<>>
    /\ heap[bs] = <<0>>

-----------------------------------------------------------------------------
\* C11, as claimed: a host string that ends in a NUL byte is passed in place:
\* no buffer is allocated and the pointer handed to the native function is the
\* address of the string's own bytes.
C11_NulTerminatedPassedInPlace ==
    (dlpc \in {"dlopen", "dlsym", "done"} /\ hasSuffix(name, <<0>>))
       => /\ bs = NameAddr
          /\ DOMAIN heap = {NameAddr}

\* C11 for the cString of dlfcn.go alone
C11_NulTerminatedPassedInPlace_dlfcn ==
    (dlfile = "dlfcn.go" /\ dlpc \in {"dlopen", "dlsym", "done"} /\ hasSuffix(name, <<0>>))
       => /\ bs = NameAddr
          /\ DOMAIN heap = {NameAddr}

\* Dlsym of dl_darwin.go is in its raw call with a string ending in NUL, and
\* the pointer it passes addresses a second buffer holding a copy
C11_CopiedAnyway ==
    /\ dlfile = "dl_darwin.go"
    /\ dlpc = "dlsym"
    /\ name = <<97, 0>>
    /\ bs # NameAddr
    /\ heap[bs] = name
    /\ Cardinality(DOMAIN heap) = 2


-----------------------------------------------------------------------------
(* The lifetime of a call's buffers.  The closure keeps keepAlive and args *)
(* in use until its deferred function has run; the collector frees what    *)
(* nothing keeps in use.                                                   *)

\* keepAlive and args are last used by the range loop
Held_untilLastUse == pc = "args" /\ argi <= Len(args)

\* defer func() { runtime.KeepAlive(keepAlive); runtime.KeepAlive(args) }():
\* both are in use from the closure's start until it returns or panics
Held == pc \in {"args", "raw", "ret"}

\* the address a holds an argument value or a buffer of the keep-alive list
\* of a call that still keeps them in use
Reachable(a) ==
    /\ Held
    /\ \/ a \in 1..Len(args)
       \/ \E j \in 1..Len(keepAlive) : keepAlive[j] = a

\* the garbage collector frees one buffer that is not kept in use
Collect ==
    /\ \E a \in DOMAIN heap :
          /\ ~Reachable(a)
          /\ heap' = [b \in DOMAIN heap \ {a} |-> heap[b]]
    /\ UNCHANGED <<ty, bound, bindErr, pc, args, argi, sysargs, floats, numInts,
                   numFloats, numStack, keepAlive, callErr, r1, r2, result,
                   targetVars, dlVars, bindVars, gateVars, frames, nativeVars>>

-----------------------------------------------------------------------------
(* SpecRet: RegisterFunc on any fptr and cfn, then a call whose result is  *)
(* decoded, with the collector running.                                    *)

\* unsupported kinds
Complex128 == T("complex128")
Interface == T("interface")

\* the parameter lists of the signatures
RetIns ==
    {<<>>, <<T("int64")>>, <<T("uint8"), T("float64")>>, <<I64x3>>, <<I64x3, F64x5>>,
     <<I64x2>>, <<Complex128>>, <<T("int64"), Interface>>}

\* the function types a result may have
RetFuncs ==
    {T("func"),
     FuncOf(<<T("int64")>>, <<T("int32")>>),
     FuncOf(<<Complex128>>, <<>>),
     FuncOf(<<>>, <<T("int64"), T("int64")>>),
     FuncOf(<<>>, <<I64x2>>)}

\* the result lists of the signatures
RetOuts ==
    {<<>>, <<T("int64"), T("int64")>>}
      \cup {<<T(k)>> : k \in SignedKinds \cup UnsignedKinds
                               \cup {"bool", "ptr", "unsafeptr", "float32", "float64"}}
      \cup {<<t>> : t \in RetFuncs}
      \cup {<<I64x2>>, <<Complex128>>, <<T("slice")>>, <<Interface>>}

RetSigs == {[In |-> in, Out |-> out] : in \in RetIns, out \in RetOuts}

\* what a native function may leave in r1 and r2: zero, one, a word whose low
\* byte alone is zero, and a word of eight different bytes whose low half is
\* a signalling NaN
RetWordsWide == RetWords \cup {<<0, 1, 0, 0, 0, 0, 0, 0>>, <<1, 0, 160, 127, 5, 6, 7, 8>>}

InitRet ==
    /\ GOARCH \in {"amd64", "arm64"}
    /\ GOOS = "darwin"
    /\ impl = "func.go"
    /\ ty \in RetSigs
    /\ fptrKind \in {"func", "int", "struct"}
    /\ cfn \in {ZeroWord, WordOf(1)}
    /\ bound = "unbound"
    /\ bindErr = NoErr
    /\ IdleCall
    /\ IdleGate
    /\ IdleNative
    /\ frames = <<>>
    /\ IdleDl

NextRet ==
    \/ RegisterFunc
    \/ CallBegin(PatternArgs(ty, 1))
    \/ CallArg
    \/ RawCall
    \/ RawReturn(RetWordsWide)
    \/ CallReturn
    \/ Collect

SpecRet == InitRet /\ [][NextRet]_vars

\* C12: while a call is placing its arguments or is inside the raw native
\* call, every buffer of its keep-alive list and every argument value is still
\* allocated with the contents it was given: nothing is released before the
\* raw call has returned.
C12_KeptAliveUntilRawReturn ==
    pc \in {"args", "raw"} =>
       /\ \A k \in 1..Len(args) : k \in DOMAIN heap /\ heap[k] = args[k]
       /\ \A j \in 1..Len(keepAlive) : keepAlive[j] \in DOMAIN heap

\* the raw call is in flight with two by-reference copies in the keep-alive
\* list
C12_Witness ==
    /\ pc = "raw"
    /\ Len(keepAlive) = 2
    /\ \A j \in 1..2 : heap[keepAlive[j]] = args[j]

\* C12, the panicking path: result decoding has panicked and the buffers of
\* the call have only now become free to collect
C12_ReleasedAfterDecodePanic ==
    /\ pc = "panic"
    /\ callErr = ErrRetKind
    /\ keepAlive # <<>>
    /\ \E j \in 1..Len(keepAlive) : keepAlive[j] \notin DOMAIN heap

\* the call has returned to its caller with a decoded result of kind k
ReturnedKind(k) ==
    /\ pc = "done"
    /\ Len(ty.Out) = 1
    /\ ty.Out[1].kind = k

\* what the claimed decoding gives: the kinds of the integer class from r1
\* alone, the float kinds from r2 alone
ClaimedResult(k, a, b) ==
    CASE k \in SignedKinds \cup UnsignedKinds -> Low(a, KindSize(k))
      [] k = "bool" -> <<IF a[1] # 0 THEN 1 ELSE 0>>
      [] k \in {"ptr", "unsafeptr", "func"} -> a
      [] k = "float32" -> Low(b, 4)
      [] k = "float64" -> b

DecodedKinds ==
    SignedKinds \cup UnsignedKinds \cup {"bool", "ptr", "unsafeptr", "func", "float32", "float64"}

\* C14, as claimed: the result is decoded from the slot its kind selects: the
\* low N bits of r1 for an N-bit integer kind, true iff the low byte of r1 is
\* not zero for bool, r1 for pointers and functions, the low 32 bits of r2 for
\* float32, r2 for float64, and nothing for a signature without result.
C14_DecodedBySlot ==
    /\ \A k \in DecodedKinds :
          ReturnedKind(k) =>
             /\ Len(result) = 1
             /\ result[1].kind = k
             /\ result[1].v = ClaimedResult(k, r1, r2)
    /\ (pc = "done" /\ Len(ty.Out) = 0) => result = <<>>

\* C14, with the float32 case as the conversions leave it: as claimed for every
\* kind, except that a float32 result whose 32 bits in r2 are a NaN comes back
\* with the same bits and bit 22 set (a signalling NaN is returned quiet).
C14_DecodedBySlotQuietNaN ==
    /\ \A k \in DecodedKinds :
          ReturnedKind(k) =>
             /\ Len(result) = 1
             /\ result[1].kind = k
             /\ result[1].v =
                   IF k = "float32" /\ IsNaN32(Low(r2, 4))
                   THEN [Low(r2, 4) EXCEPT ![3] = BitOr(@, 64)]
                   ELSE ClaimedResult(k, r1, r2)
    /\ (pc = "done" /\ Len(ty.Out) = 0) => result = <<>>

\* an int32 result decoded from an r1 of eight different bytes, r2 holding
\* something else
C14_Witness ==
    /\ ReturnedKind("int32")
    /\ r1 = <<1, 0, 160, 127, 5, 6, 7, 8>>
    /\ r2 = WordOf(1)
    /\ result = <<V("int32", <<1, 0, 160, 127>>)>>

\* a float32 result whose bits in r2 are the signalling NaN 7FA00001 is
\* returned as 7FE00001
C14_SignallingNaNQuieted ==
    /\ ReturnedKind("float32")
    /\ Low(r2, 4) = <<1, 0, 160, 127>>
    /\ result = <<V("float32", <<1, 0, 224, 127>>)>>

\* a bool result is false although r1 is not zero: its low byte is
C14_BoolFromLowByte ==
    /\ ReturnedKind("bool")
    /\ r1 = <<0, 1, 0, 0, 0, 0, 0, 0>>
    /\ result = <<V("bool", <<0>>)>>

\* one of the three conditions RegisterFunc tests first
BadFptrOrCfn == fptrKind # "func" \/ Len(ty.Out) > 1 \/ cfn = ZeroWord

\* C16: once RegisterFunc has run, if fptr does not point to a function value,
\* or the type has more than one result, or cfn is 0, it has panicked and
\* *fptr is unassigned; if none of these holds and the classification of the
\* parameters succeeds, it has not panicked and *fptr is set.
C16_PanicsOrBinds ==
    bound # "unbound" =>
       /\ BadFptrOrCfn => (bound = "panic" /\ bindErr # NoErr)
       /\ (~BadFptrOrCfn /\ RegisterFuncErr(ty) = NoErr) =>
             (bound = "bound" /\ bindErr = NoErr)

\* RegisterFunc has panicked for the sole reason that cfn is 0
C16_Witness ==
    /\ bound = "panic"
    /\ bindErr = ErrCfnNil
    /\ fptrKind = "func"
    /\ Len(ty.Out) = 1
    /\ cfn = ZeroWord

\* RegisterFunc has panicked because fptr points to a struct
C16_NotAFunction ==
    /\ bound = "panic"
    /\ bindErr = ErrNotFunc
    /\ fptrKind = "struct"
    /\ cfn # ZeroWord

\* RegisterFunc has set *fptr and a call through it has returned
C16_BoundAndCalled ==
    /\ bound = "bound"
    /\ ~BadFptrOrCfn
    /\ pc = "done"

\* the kinds the claims call supported, for parameters and for results
SupportedParamKinds == IntegerClassKinds \cup FloatKinds \cup {"struct"}
SupportedReturnKinds ==
    SignedKinds \cup UnsignedKinds \cup FloatKinds
       \cup {"bool", "ptr", "unsafeptr", "func", "string"}

UnsupportedParam == \E i \in 1..Len(ty.In) : ty.In[i].kind \notin SupportedParamKinds
UnsupportedReturn == Len(ty.Out) = 1 /\ ty.Out[1].kind \notin SupportedReturnKinds

\* C17, as claimed: a signature with a parameter kind or a return kind outside
\* the supported set is rejected by RegisterFunc, which panics before *fptr is
\* assigned, and no call ever panics for an unsupported kind.
C17_UnsupportedRejectedAtBind ==
    /\ (bound # "unbound" /\ (UnsupportedParam \/ UnsupportedReturn)) => bound = "panic"
    /\ callErr \notin {ErrKind, ErrRetKind}

\* C17 for the parameter kinds of the signature alone: an unsupported one is
\* rejected by RegisterFunc, and a call panics for a parameter kind only when
\* it binds a function-typed result
C17_UnsupportedParamRejectedAtBind ==
    /\ (bound # "unbound" /\ UnsupportedParam) => bound = "panic"
    /\ callErr = ErrKind => (pc = "panic" /\ ty.Out[1].kind = "func")

\* a signature with a struct result was bound, the native function was called
\* and has returned, and only then the closure panicked for the return kind
C17_StructReturnDetectedAfterCall ==
    /\ bound = "bound"
    /\ ty.Out = <<I64x2>>
    /\ pc = "panic"
    /\ callErr = ErrRetKind
    /\ r1 = WordOf(1)

\* C18, as claimed: a call through a function that RegisterFunc has bound never
\* panics, whatever the native function leaves in the return slots.
C18_AcceptedCallNeverPanics == bound = "bound" => pc # "panic"

\* C18 for signatures without result or with a result of an integer, bool,
\* pointer or float kind
C18_ScalarResultNeverPanics ==
    (bound = "bound" /\ (Len(ty.Out) = 0 \/ ty.Out[1].kind \in DecodedKinds \ {"func"}))
       => pc # "panic"

\* the native function has returned address 0 for a result of type func(int64)
\* int32, and the call has panicked with RegisterFunc's "cfn is nil"
C18_NilFunctionResultPanics ==
    /\ bound = "bound"
    /\ ty.Out = <<FuncOf(<<T("int64")>>, <<T("int32")>>)>>
    /\ r1 = ZeroWord
    /\ pc = "panic"
    /\ callErr = ErrCfnNil

\* the same signature with a non-zero address returns a bound function
C18_FunctionResultBound ==
    /\ ty.Out = <<FuncOf(<<T("int64")>>, <<T("int32")>>)>>
    /\ r1 = WordOf(1)
    /\ pc = "done"
    /\ result[1].kind = "func"

-----------------------------------------------------------------------------
(* SpecGate: the raw native calls of callc (behind syscall_syscall9X) and  *)
(* of fakecgo's call5, on one worker.                                      *)

\* the number of native calls of a behaviour
MaxGateCalls == 4

\* runtime_entersyscall left out
runtime_entersyscall_skipped(b) == b

\* runtime_entersyscall(): the scheduler knows the worker is in a foreign call
runtime_entersyscall(b) == TRUE

\* runtime_exitsyscall(): the worker is runnable again
runtime_exitsyscall(b) == FALSE

notGate == <<ty, bound, bindErr, callVars, targetVars, dlVars, bindVars, frames, nativeVars>>

\* syscall_syscall9X(fn, a1, ..., a9): args built, callc(syscall9XABI0, &args) called
syscall_syscall9X ==
    /\ gpc = "idle"
    /\ natives < MaxGateCalls
    /\ gpc' = "callc"
    /\ UNCHANGED <<insyscall, enters, exits, natives, gret, notGate>>

\* callc: runtime_entersyscall()
callc_entersyscall ==
    /\ gpc = "callc"
    /\ insyscall' = runtime_entersyscall(insyscall)
    /\ enters' = enters + 1
    /\ gpc' = "entered"
    /\ UNCHANGED <<exits, natives, gret, notGate>>

\* callc: runtime_libcCall(unsafe.Pointer(fn), args), the native function starts
callc_libcCall ==
    /\ gpc = "entered"
    /\ natives' = natives + 1
    /\ gpc' = "native"
    /\ UNCHANGED <<insyscall, enters, exits, gret, notGate>>

\* the native function returns into callc, leaving args.r1
callc_libcReturn ==
    /\ gpc = "native"
    /\ gret' \in RetWords
    /\ gpc' = "returned"
    /\ UNCHANGED <<insyscall, enters, exits, natives, notGate>>

\* callc: runtime_exitsyscall(); syscall_syscall9X returns args.r1, args.r2, args.err
callc_exitsyscall ==
    /\ gpc = "returned"
    /\ insyscall' = runtime_exitsyscall(insyscall)
    /\ exits' = exits + 1
    /\ gpc' = "idle"
    /\ UNCHANGED <<enters, natives, gret, notGate>>

\* call5(fn, a1, ..., a5) up to CALL AX: the native function starts
call5 ==
    /\ gpc = "idle"
    /\ natives < MaxGateCalls
    /\ natives' = natives + 1
    /\ gpc' = "call5"
    /\ UNCHANGED <<insyscall, enters, exits, gret, notGate>>

\* the native function returns into call5: MOVQ AX, ret+48(FP); RET
call5_return ==
    /\ gpc = "call5"
    /\ gret' \in RetWords
    /\ gpc' = "idle"
    /\ UNCHANGED <<insyscall, enters, exits, natives, notGate>>

InitGate ==
    /\ GOARCH \in {"amd64", "arm64"}
    /\ GOOS = "darwin"
    /\ impl = "func.go"
    /\ ty = [In |-> <<>>, Out |-> <<>>]
    /\ bound = "unbound"
    /\ bindErr = NoErr
    /\ FuncPointer
    /\ IdleCall
    /\ IdleGate
    /\ IdleNative
    /\ frames = <<>>
    /\ IdleDl

NextGate ==
    \/ syscall_syscall9X
    \/ callc_entersyscall
    \/ callc_libcCall
    \/ callc_libcReturn
    \/ callc_exitsyscall
    \/ call5
    \/ call5_return

SpecGate == InitGate /\ [][NextGate]_vars

\* a native function is executing
NativeRunning == gpc \in {"native", "call5"}

\* C13, as claimed: no native call executes outside a bracket of the scheduler
\* gate, and entries and exits match one to one.
C13_EveryNativeCallBracketed ==
    /\ NativeRunning => insyscall
    /\ enters - exits = (IF insyscall THEN 1 ELSE 0)

\* C13, for the calls issued through callc: the scheduler is told of the entry
\* before the native function starts and of the exit after it has returned,
\* each entry has exactly one exit, and the native function runs inside the
\* bracket.
C13_CallcBracketed ==
    /\ gpc = "native" => insyscall
    /\ insyscall <=> gpc \in {"entered", "native", "returned"}
    /\ enters - exits = (IF gpc \in {"entered", "native", "returned"} THEN 1 ELSE 0)

\* the second native call through callc is executing
C13_Witness ==
    /\ gpc = "native"
    /\ enters = 2
    /\ exits = 1

\* a native function started by call5 is executing and the scheduler was not told
C13_Call5Unbracketed ==
    /\ gpc = "call5"
    /\ ~insyscall
    /\ enters = exits

-----------------------------------------------------------------------------
(* SpecConc: several invocations of the closure in flight at once, each    *)
(* with its locals in its own frame.                                       *)

\* the number of concurrent calls
NumTasks == 2

notFrames ==
    <<ty, bound, bindErr, callVars, targetVars, dlVars, bindVars, gateVars, nativeVars>>

\* every invocation uses the one frame 1
frameOf_shared(c) == 1

\* the frame holding the locals of invocation c: sysargs, floats, the
\* counters, keepAlive, r1 and r2 are declared inside the closure, so every
\* invocation has its own
frameOf(c) == c

\* the arguments of call c
TaskArgs(c) == PatternArgs(ty, c)

\* the closure's locals at its start, called with the arguments a
NewLocals(a) ==
    [args |-> a, argi |-> 1, img |-> NewImage(CallConv, ArgHeap(a)),
     r1 |-> ZeroWord, r2 |-> ZeroWord, result |-> <<>>]

Locals(c) == frames.locals[frameOf(c)]

SetLocals(c, L, at) ==
    frames' = [at |-> [frames.at EXCEPT ![c] = at],
               locals |-> (frameOf(c) :> L) @@ frames.locals]

FrameBegin(c) ==
    /\ bound = "bound"
    /\ frames.at[c] = "idle"
    /\ SetLocals(c, NewLocals(expand(TaskArgs(c))), "args")
    /\ UNCHANGED notFrames

\* one iteration of the range loop on the locals L
argStep(L) == [L EXCEPT !.img = argCase(L.args[L.argi], L.img), !.argi = @ + 1]

FrameArgAt(c, L) ==
    SetLocals(c, L, IF L.img.err = NoErr THEN "args" ELSE "panic")

FrameArg(c) ==
    /\ frames.at[c] = "args"
    /\ Locals(c).argi <= Len(Locals(c).args)
    /\ FrameArgAt(c, argStep(Locals(c)))
    /\ UNCHANGED notFrames

FrameRawCall(c) ==
    /\ frames.at[c] = "args"
    /\ Locals(c).argi > Len(Locals(c).args)
    /\ SetLocals(c, Locals(c), "raw")
    /\ UNCHANGED notFrames

\* the native function of the calls returns its n-th integer argument in the
\* integer return register and its n-th float argument in the float one
NativeFns == {0, 1}

FrameRawReturn(c, n) ==
    /\ frames.at[c] = "raw"
    /\ SetLocals(c, [Locals(c) EXCEPT !.r1 = Locals(c).img.sysargs[n],
                                      !.r2 = Locals(c).img.floats[n]], "ret")
    /\ UNCHANGED notFrames

decodeStep(L) == [L EXCEPT !.result = decodeReturn(ty.Out, L.r1, L.r2).v]

FrameReturn(c) ==
    /\ frames.at[c] = "ret"
    /\ SetLocals(c, decodeStep(Locals(c)),
                 IF decodeReturn(ty.Out, Locals(c).r1, Locals(c).r2).err = NoErr
                 THEN "done" ELSE "panic")
    /\ UNCHANGED notFrames

ConcIns ==
    {<<T("int64")>>, <<T("int64"), T("float64")>>, <<T("uint8"), T("float32"), T("int32")>>,
     <<I64x3>>, <<I64x3, T("int64")>>, <<F32x2, T("float64")>>}

ConcOuts == {<<>>, <<T("int64")>>, <<T("uint8")>>, <<T("float64")>>, <<T("float32")>>}

ConcSigs == {[In |-> in, Out |-> out] : in \in ConcIns, out \in ConcOuts}

InitConc ==
    /\ GOARCH \in {"amd64", "arm64"}
    /\ GOOS = "darwin"
    /\ impl = "func.go"
    /\ ty \in ConcSigs
    /\ bound = "unbound"
    /\ bindErr = NoErr
    /\ FuncPointer
    /\ pc = "idle"
    /\ args = <<>>
    /\ argi = 0
    /\ sysargs = [j \in 0..(maxArgs - 1) |-> ZeroWord]
    /\ floats = [j \in 0..(numOfFloats - 1) |-> ZeroWord]
    /\ numInts = 0
    /\ numFloats = 0
    /\ numStack = 0
    /\ keepAlive = <<>>
    /\ heap = <<>>
    /\ callErr = NoErr
    /\ r1 = ZeroWord
    /\ r2 = ZeroWord
    /\ result = <<>>
    /\ IdleGate
    /\ IdleNative
    /\ IdleDl
    /\ frames = [at |-> [c \in 1..NumTasks |-> "idle"], locals |-> <<>>]

NextConc ==
    \/ RegisterFunc
    \/ \E c \in 1..NumTasks :
          \/ FrameBegin(c)
          \/ FrameArg(c)
          \/ FrameRawCall(c)
          \/ \E n \in NativeFns : FrameRawReturn(c, n)
          \/ FrameReturn(c)

SpecConc == InitConc /\ [][NextConc]_vars

\* the image of a call with the arguments a after its first n arguments, run
\* alone
RECURSIVE ImageAfter(_, _)
ImageAfter(a, n) ==
    IF n = 0 THEN NewImage(CallConv, ArgHeap(a))
    ELSE argCase(a[n], ImageAfter(a, n - 1))

\* the locals of call c are those of the same call made alone
OwnLocals(c, L) ==
    /\ L.args = TaskArgs(c)
    /\ L.img = ImageAfter(TaskArgs(c), L.argi - 1)
    /\ frames.at[c] \in {"ret", "done"} =>
          \E n \in NativeFns :
             /\ L.r1 = ImageAfter(TaskArgs(c), Len(ty.In)).sysargs[n]
             /\ L.r2 = ImageAfter(TaskArgs(c), Len(ty.In)).floats[n]
    /\ frames.at[c] = "done" => L.result = decodeReturn(ty.Out, L.r1, L.r2).v

\* C15: under every interleaving of the calls, each call in flight has its own
\* locals, and its slots, counters, stack part, keep-alive list, return slots
\* and result are those the same call has when made alone: nothing of another
\* call's arguments or return values appears in them.
C15_CallsIsolated ==
    \A c \in 1..NumTasks :
       frames.at[c] \in {"args", "raw", "ret", "done"} =>
          /\ c \in DOMAIN frames.locals
          /\ OwnLocals(c, frames.locals[c])

\* two calls are inside their raw calls at once, with different images, one of
\* them with a by-reference copy
C15_Witness ==
    /\ frames.at[1] = "raw"
    /\ frames.at[2] = "raw"
    /\ frames.locals[1].img.sysargs # frames.locals[2].img.sysargs
    /\ frames.locals[1].img.keepAlive # <<>>

\* one call has returned its own result while the other is still placing
\* arguments
C15_OneDoneOneRunning ==
    /\ frames.at[1] = "done"
    /\ frames.at[2] = "args"
    /\ frames.locals[1].result # <<>>
    /\ frames.locals[1].result # <<Zero(ty.Out[1])>>

-----------------------------------------------------------------------------
(* SpecVar: calls whose last argument is a []interface{} value.            *)

\* the largest number of fixed parameters before the slice
MaxVarFixed == 7
\* the largest number of elements of the slice
MaxVariadic == 3

VariadicT == T("[]interface{}")

\* the j-th element of the slice, of kind k
ElemValue(k, j) ==
    CASE k = "int64" -> V("int64", [b \in 1..8 |-> IF b = 1 THEN 100 + j ELSE 255])
      [] k = "float64" -> V("float64", [b \in 1..8 |-> IF b = 8 THEN 64 ELSE 150 + j])
      [] k = "uint8" -> V("uint8", <<200 + j>>)
      [] k = "invalid" -> V("invalid", <<>>)

\* the dynamic kinds of the elements; reflect.ValueOf of a nil interface is
\* the zero Value, whose Kind is Invalid
ElemKinds == {"int64", "float64", "uint8", "invalid"}

ElemSeqs ==
    UNION {{[j \in 1..k |-> ElemValue(ks[j], j)] : ks \in [1..k -> ElemKinds]} :
             k \in 0..MaxVariadic}

\* a []interface{} value: its data pointer and its elements; the nil slice
\* has pointer 0 and no element
SliceValue(ptr, e) == [kind |-> "[]interface{}", v |-> ptr, elems |-> e]

SliceValues ==
    {SliceValue(ZeroWord, <<>>)} \cup {SliceValue(WordOf(9), e) : e \in ElemSeqs}

\* fixed int64 parameters followed by the slice, and one signature with the
\* slice before a fixed parameter
VarSigs ==
    {[In |-> Fields(Rep("int64", a)) \o <<VariadicT>>, Out |-> <<>>] : a \in 0..MaxVarFixed}
      \cup {[In |-> <<VariadicT, T("int64")>>, Out |-> <<>>]}

\* the arguments of a call of type t with the []interface{} value sl
VarArgs(t, sl) ==
    [k \in 1..Len(t.In) |->
        IF t.In[k].kind = "[]interface{}" THEN sl ELSE ArgValue(t.In[k], k)]

InitVar ==
    /\ \E tg \in ScalarTargets : GOARCH = tg.arch /\ GOOS = tg.os
    /\ impl = "func.go"
    /\ ty \in VarSigs
    /\ bound = "unbound"
    /\ bindErr = NoErr
    /\ FuncPointer
    /\ IdleCall
    /\ IdleGate
    /\ IdleNative
    /\ frames = <<>>
    /\ IdleDl

NextVar ==
    \/ RegisterFunc
    \/ \E sl \in SliceValues : CallBegin(VarArgs(ty, sl))
    \/ CallArg
    \/ RawCall
    \/ RawReturn(RetWords)
    \/ CallReturn

SpecVar == InitVar /\ [][NextVar]_vars

\* the arguments the caller passed, at their addresses
PassedArgs == [k \in 1..Len(ty.In) |-> heap[k]]

\* the caller's last argument is a []interface{} value
LastIsSlice == Len(ty.In) > 0 /\ ty.In[Len(ty.In)].kind = "[]interface{}"

\* the fixed arguments followed by the elements as separate arguments
Separate(a) == SubSeq(a, 1, Len(a) - 1) \o a[Len(a)].elems

\* the slots and counters of an image
Slots(img) ==
    <<img.sysargs, img.floats, img.numInts, img.numFloats, img.numStack>>

\* C19: when the last argument of a call is a []interface{} value, the image
\* the call has built once all arguments are placed is the image of the call
\* with the preceding arguments followed by the elements as separate
\* arguments; an empty or nil slice gives the image of the fixed arguments.
C19_VariadicImage ==
    (LastIsSlice /\ AllArgsPlaced) =>
       /\ Len(args) = Len(Separate(PassedArgs))
       /\ Slots(Image) = Slots(ImageAfter(Separate(PassedArgs), Len(Separate(PassedArgs))))

\* a call with six fixed integers and the elements int64, float64, uint8 on
\* the SysV convention of amd64: the first element goes to the stack, the
\* second to a float register
C19_Witness ==
    /\ GOARCH = "amd64"
    /\ GOOS = "darwin"
    /\ LastIsSlice
    /\ pc = "raw"
    /\ Len(ty.In) = 7
    /\ Len(args) = 9
    /\ numStack = 2
    /\ numFloats = 1

\* a call with two fixed arguments and the nil slice has the image of the two
\* arguments
C19_NilSlice ==
    /\ LastIsSlice
    /\ pc = "raw"
    /\ Len(ty.In) = 3
    /\ heap[3] = SliceValue(ZeroWord, <<>>)
    /\ numInts + numStack = 2

\* a nil element stops the call: its kind is Invalid
C19_NilElementPanics ==
    /\ LastIsSlice
    /\ pc = "panic"
    /\ callErr = ErrKind

-----------------------------------------------------------------------------
(* SpecLib: RegisterLibFunc on a library with two symbols, then a call.    *)

\* the names RegisterLibFunc is called with
LibNames == {<<97>>, <<98>>, <<97, 98>>, <<98, 97>>}

\* the library behind handle: the address of the symbol named n, 0 when it
\* has no such symbol
LibAddress(n) ==
    CASE n = <<97>> -> WordOf(1)
      [] n = <<97, 98>> -> WordOf(2)
      [] OTHER -> ZeroWord

ErrSymbol == "symbol not found"

\* loadSymbol(handle, name): the address and a nil error for a symbol of the
\* library; for a name that is not one, address 0 with an error or without
loadSymbol(n) ==
    IF LibAddress(n) # ZeroWord
    THEN {[sym |-> LibAddress(n), err |-> NoErr]}
    ELSE {[sym |-> ZeroWord, err |-> ErrSymbol], [sym |-> ZeroWord, err |-> NoErr]}

\* RegisterFunc is called whatever loadSymbol returned
libFuncPanic_errIgnored(o, k, t) == RegisterFuncPanic(k, t, WordOf(1))

\* if err != nil { panic(err) }; RegisterFunc(fptr, sym)
libFuncPanic(o, k, t) ==
    IF o.err # NoErr THEN o.err ELSE RegisterFuncPanic(k, t, o.sym)

RegisterLibFuncWith(n, o) ==
    /\ name' = n
    /\ cfn' = o.sym
    /\ bindErr' = libFuncPanic(o, fptrKind, ty)
    /\ bound' = IF bindErr' = NoErr THEN "bound" ELSE "panic"

RegisterLibFunc(n) ==
    /\ bound = "unbound"
    /\ \E o \in loadSymbol(n) : RegisterLibFuncWith(n, o)
    /\ UNCHANGED <<ty, callVars, targetVars, dlfile, dlpc, bs, fptrKind, gateVars, frames, nativeVars>>

\* the signatures of SpecLib
LibSigs ==
    {[In |-> in, Out |-> out] :
        in \in {<<>>, <<T("int64")>>, <<I64x3>>, <<Complex128>>},
        out \in {<<>>, <<T("int32")>>, <<T("float64")>>, <<T("int64"), T("int64")>>}}

InitLib ==
    /\ GOARCH \in {"amd64", "arm64"}
    /\ GOOS = "darwin"
    /\ impl = "func.go"
    /\ ty \in LibSigs
    /\ fptrKind \in {"func", "int"}
    /\ cfn = ZeroWord
    /\ bound = "unbound"
    /\ bindErr = NoErr
    /\ IdleCall
    /\ IdleGate
    /\ IdleNative
    /\ frames = <<>>
    /\ IdleDl

NextLib ==
    \/ \E n \in LibNames : RegisterLibFunc(n)
    \/ CallBegin(PatternArgs(ty, 1))
    \/ CallArg
    \/ RawCall
    \/ RawReturn(RetWords)
    \/ CallReturn

SpecLib == InitLib /\ [][NextLib]_vars

\* C20: once RegisterLibFunc has run, if the name is not a symbol of the
\* library it has panicked and *fptr is unassigned; otherwise its outcome is
\* that of RegisterFunc(fptr, address of the symbol): the same panic or none,
\* *fptr set exactly when RegisterFunc sets it, bound to that address.
C20_LibFuncPanicsOrBindsAsRegisterFunc ==
    bound # "unbound" =>
       IF LibAddress(name) = ZeroWord
       THEN bound = "panic" /\ bindErr # NoErr
       ELSE /\ cfn = LibAddress(name)
            /\ bindErr = RegisterFuncPanic(fptrKind, ty, LibAddress(name))
            /\ bound = (IF bindErr = NoErr THEN "bound" ELSE "panic")

\* RegisterLibFunc has panicked for a name that is no symbol of the library,
\* with a signature RegisterFunc accepts
C20_Witness ==
    /\ name = <<98>>
    /\ fptrKind = "func"
    /\ RegisterFuncPanic(fptrKind, ty, WordOf(1)) = NoErr
    /\ bound = "panic"

\* RegisterLibFunc has bound the symbol "ab" and a call through it has
\* returned
C20_BoundToSymbol ==
    /\ name = <<97, 98>>
    /\ bound = "bound"
    /\ cfn = WordOf(2)
    /\ pc = "done"

-----------------------------------------------------------------------------
(* SpecDl: Dlopen, Dlsym and Dlclose of dlfcn.go against the dynamic linker  *)
(* that their doc comments describe.                                         *)

\* the number of Dl calls of one run
MaxDlCalls == 4

\* the files the linker can load, and the paths a caller may give
LibPaths == {"libA", "libB"}
DlPaths == LibPaths \cup {"missing"}

\* "It returns a handle that can be used with Dlsym and Dlclose. A second
\* call to Dlopen with the same path will return the same handle"
HandleOf(p) == WordOf(IF p = "libA" THEN 16 ELSE 32)

\* the handles a caller may give: the libraries' and one of no library
DlHandles == {HandleOf(p) : p \in LibPaths} \cup {WordOf(48)}

\* the address of the looked-up symbol in a loaded library
SymbolAddr(p) == WordOf(IF p = "libA" THEN 17 ELSE 33)

\* a C int -1 in the return register: the upper half is whatever the callee left
IntMinusOne == {<<255, 255, 255, 255, 0, 0, 0, 0>>, Rep(255, 8)}

\* the libraries with handle h that are loaded now
LoadedAt(h) == {p \in LibPaths : HandleOf(p) = h /\ linker.ref[p] > 0}

\* native dlopen: loads and links the file if it is compatible, increments
\* the handle's reference count, returns the handle; NULL when it cannot
dlopen(p) ==
    IF p \in LibPaths
    THEN {[ref |-> [linker.ref EXCEPT ![p] = @ + 1], r1 |-> HandleOf(p)]}
    ELSE {[ref |-> linker.ref, r1 |-> ZeroWord]}

\* native dlsym: the address of the symbol, zero if it is not found
dlsym(h) ==
    IF LoadedAt(h) # {}
    THEN {[ref |-> linker.ref, r1 |-> SymbolAddr(p)] : p \in LoadedAt(h)}
    ELSE {[ref |-> linker.ref, r1 |-> ZeroWord]}

\* native dlclose: decrements the reference count of the handle and returns
\* 0; -1 for a handle of no loaded library
dlclose(h) ==
    IF LoadedAt(h) # {}
    THEN {[ref |-> [p \in LibPaths |->
                       IF p \in LoadedAt(h) THEN linker.ref[p] - 1 ELSE linker.ref[p]],
           r1 |-> ZeroWord]}
    ELSE {[ref |-> linker.ref, r1 |-> w] : w \in IntMinusOne}

\* every Dl function is declared with a uintptr result
DlOut_allUintptr(op) == <<T("uintptr")>>

\* fnDlopen func(path string, mode int) uintptr, fnDlsym func(handle uintptr,
\* name string) uintptr, fnDlclose func(handle uintptr) bool
DlOut(op) == IF op = "Dlclose" THEN <<T("bool")>> ELSE <<T("uintptr")>>

\* one call of a bound Dl function: the native function runs, the closure
\* decodes r1 by the result kind and returns (or panics) to the caller
DlCall(op, arg, o) ==
    /\ Len(linker.hist) < MaxDlCalls
    /\ linker' = [ref |-> o.ref,
                  hist |-> Append(linker.hist,
                     [op |-> op, arg |-> arg, r1 |-> o.r1,
                      how |-> IF decodeReturn(DlOut(op), o.r1, ZeroWord).err = NoErr
                              THEN "returned" ELSE "panic",
                      ret |-> decodeReturn(DlOut(op), o.r1, ZeroWord).v])]
    /\ UNCHANGED <<ty, bound, bindErr, callVars, targetVars, dlVars, bindVars,
                   gateVars, frames, imp, cpu>>

\* func Dlopen(path string, mode int) uintptr { return fnDlopen(path, mode) }
fnDlopen(p) == \E o \in dlopen(p) : DlCall("Dlopen", p, o)

\* func Dlsym(handle uintptr, name string) uintptr { return fnDlsym(handle, name) }
fnDlsym(h) == \E o \in dlsym(h) : DlCall("Dlsym", h, o)

\* func Dlclose(handle uintptr) bool { return fnDlclose(handle) }
fnDlclose(h) == \E o \in dlclose(h) : DlCall("Dlclose", h, o)

InitDl ==
    /\ GOARCH \in {"amd64", "arm64"}
    /\ GOOS = "darwin"
    /\ impl = "func.go"
    /\ ty = [In |-> <<>>, Out |-> <<>>]
    /\ bound = "unbound"
    /\ bindErr = NoErr
    /\ FuncPointer
    /\ IdleCall
    /\ IdleGate
    /\ frames = <<>>
    /\ IdleDl
    /\ linker = [ref |-> [p \in LibPaths |-> 0], hist |-> <<>>]
    /\ imp = <<>>
    /\ cpu = <<>>

NextDl ==
    \/ \E p \in DlPaths : fnDlopen(p)
    \/ \E h \in DlHandles : fnDlsym(h)
    \/ \E h \in DlHandles : fnDlclose(h)

SpecDl == InitDl /\ [][NextDl]_vars

\* the calls made so far, by position
DlHist == linker.hist

\* an open of path p; a close of p's handle that the linker accepted
IsOpen(p, e) == e.op = "Dlopen" /\ e.arg = p
IsClosed(p, e) == e.op = "Dlclose" /\ e.arg = HandleOf(p) /\ e.r1 = ZeroWord

Opens(p, n) == Cardinality({j \in 1..n : IsOpen(p, DlHist[j])})
Closes(p, n) == Cardinality({j \in 1..n : IsClosed(p, DlHist[j])})

\* C21: a Dlopen of a library that cannot be loaded fails: it does not
\* return normally with a handle value.
C21_DlopenFailsWhenAbsent ==
    \A j \in DOMAIN DlHist :
       (DlHist[j].op = "Dlopen" /\ DlHist[j].arg \notin LibPaths) =>
          DlHist[j].how # "returned"

\* a Dlopen of a missing file has returned the word 0 to its caller
C21_ReturnedZeroHandle ==
    \E j \in DOMAIN DlHist :
       /\ DlHist[j].op = "Dlopen"
       /\ DlHist[j].arg = "missing"
       /\ DlHist[j].how = "returned"
       /\ DlHist[j].ret = <<V("uintptr", ZeroWord)>>

\* C22: after any sequence of Dlopen and Dlclose calls on a path, every
\* Dlopen returned the same handle, the reference count is the number of
\* Dlopen calls less the number of successful Dlclose calls, Dlclose returned
\* false exactly on success, and while fewer Dlclose than Dlopen calls have
\* been made the library is loaded: Dlsym on the handle resolves.
C22_RefCountBalanced ==
    \A p \in LibPaths :
       /\ \A j \in DOMAIN DlHist :
             IsOpen(p, DlHist[j]) =>
                /\ DlHist[j].how = "returned"
                /\ DlHist[j].ret = <<V("uintptr", HandleOf(p))>>
       /\ linker.ref[p] = Opens(p, Len(DlHist)) - Closes(p, Len(DlHist))
       /\ \A j \in DOMAIN DlHist :
             DlHist[j].op = "Dlclose" =>
                /\ DlHist[j].how = "returned"
                /\ DlHist[j].ret = <<V("bool", <<IF DlHist[j].r1 = ZeroWord THEN 0 ELSE 1>>)>>
       /\ \A j \in DOMAIN DlHist :
             (/\ DlHist[j].op = "Dlsym"
              /\ DlHist[j].arg = HandleOf(p)
              /\ Closes(p, j - 1) < Opens(p, j - 1)) =>
                DlHist[j].ret = <<V("uintptr", SymbolAddr(p))>>
       /\ Closes(p, Len(DlHist)) < Opens(p, Len(DlHist)) => LoadedAt(HandleOf(p)) = {p}

\* opened twice, closed once with result false, and Dlsym still resolves
C22_Witness ==
    /\ Len(DlHist) = 4
    /\ IsOpen("libA", DlHist[1])
    /\ IsOpen("libA", DlHist[2])
    /\ IsClosed("libA", DlHist[3])
    /\ DlHist[3].ret = <<V("bool", <<0>>)>>
    /\ DlHist[4].op = "Dlsym"
    /\ DlHist[4].ret = <<V("uintptr", SymbolAddr("libA"))>>
    /\ linker.ref["libA"] = 1

\* a Dlclose of a handle whose count is zero returns true
C22_CloseOfUnloadedFails ==
    /\ Len(DlHist) = 3
    /\ IsOpen("libB", DlHist[1])
    /\ IsClosed("libB", DlHist[2])
    /\ DlHist[3].op = "Dlclose"
    /\ DlHist[3].arg = HandleOf("libB")
    /\ DlHist[3].ret = <<V("bool", <<1>>)>>

-----------------------------------------------------------------------------
(* SpecIMP: objc.IMP, from the interface value it is given to its result or  *)
(* its panic.                                                                *)

\* the longest parameter list of a function given to IMP
MaxImpParams == 3

ErrImpNotFunc == "objc: not a function"
ErrImpArgs == "objc: IMP must take a (id, SEL) as its first two arguments"
ErrInIndex == "reflect: Func index out of bounds"

\* a Go type by its name and its kind: uintptr itself, the named types ID
\* and SEL whose kind is uintptr, and types of other kinds
GoType(n, k) == [name |-> n, kind |-> k]
ImpParamTypes ==
    {GoType("uintptr", "uintptr"), GoType("ID", "uintptr"),
     GoType("SEL", "uintptr"), GoType("int", "int")}

\* parameter lists of up to n types
RECURSIVE ImpParams(_)
ImpParams(n) ==
    IF n = 0 THEN {<<>>}
    ELSE ImpParams(n - 1) \cup
         {Append(s, t) : s \in {q \in ImpParams(n - 1) : Len(q) = n - 1},
                         t \in ImpParamTypes}

\* what a caller may put in fn interface{}: a uintptr, a value of a named
\* type of kind uintptr, values of other kinds, nil, and functions
ImpFns ==
    {[type |-> GoType("uintptr", "uintptr"), v |-> WordOf(5), In |-> <<>>],
     [type |-> GoType("ID", "uintptr"), v |-> WordOf(5), In |-> <<>>],
     [type |-> GoType("int", "int"), v |-> WordOf(5), In |-> <<>>],
     [type |-> GoType("string", "string"), v |-> ZeroWord, In |-> <<>>],
     [type |-> GoType("nil", "invalid"), v |-> ZeroWord, In |-> <<>>]}
    \cup {[type |-> GoType("func", "func"), v |-> WordOf(9), In |-> in] :
             in \in ImpParams(MaxImpParams)}

\* purego.NewCallback(fn): the callback made of fn, as the call IMP makes
NewCallback(fn) == <<"NewCallback", fn>>

\* val.Type().In(i).Kind(), i counted from 0; reflect panics past the end
InKind(fn, i) == IF i + 1 \in DOMAIN fn.In THEN fn.In[i + 1].kind ELSE ErrInIndex

ImpReturn(x) == [how |-> "returned", ret |-> <<x>>, err |-> NoErr]
ImpPanic(e) == [how |-> "panic", ret |-> <<>>, err |-> e]

\* the switch of IMP: the first case that holds falls through to the panic
ImpSwitch(fn) ==
    CASE Len(fn.In) < 2 -> ImpPanic(ErrImpArgs)
      [] InKind(fn, 0) = ErrInIndex -> ImpPanic(ErrInIndex)
      [] InKind(fn, 0) # "uintptr" -> ImpPanic(ErrImpArgs)
      [] InKind(fn, 1) = ErrInIndex -> ImpPanic(ErrInIndex)
      [] InKind(fn, 1) # "uintptr" -> ImpPanic(ErrImpArgs)
      [] OTHER -> ImpReturn(NewCallback(fn))

\* the switch without its first case
IMP_noNumIn(fn) ==
    IF fn.type.name = "uintptr" THEN ImpReturn(fn.v)
    ELSE IF fn.type.kind # "func" THEN ImpPanic(ErrImpNotFunc)
    ELSE CASE InKind(fn, 0) = ErrInIndex -> ImpPanic(ErrInIndex)
           [] InKind(fn, 0) # "uintptr" -> ImpPanic(ErrImpArgs)
           [] InKind(fn, 1) = ErrInIndex -> ImpPanic(ErrInIndex)
           [] InKind(fn, 1) # "uintptr" -> ImpPanic(ErrImpArgs)
           [] OTHER -> ImpReturn(NewCallback(fn))

\* func IMP(fn interface{}) _IMP
IMP(fn) ==
    IF fn.type.name = "uintptr" THEN ImpReturn(fn.v)
    ELSE IF fn.type.kind # "func" THEN ImpPanic(ErrImpNotFunc)
    ELSE ImpSwitch(fn)

\* one call of IMP
CallIMP ==
    /\ imp.how = "idle"
    /\ imp' = [fn |-> imp.fn] @@ IMP(imp.fn)
    /\ UNCHANGED <<ty, bound, bindErr, callVars, targetVars, dlVars, bindVars,
                   gateVars, frames, linker, cpu>>

InitIMP ==
    /\ GOARCH \in {"amd64", "arm64"}
    /\ GOOS = "darwin"
    /\ impl = "func.go"
    /\ ty = [In |-> <<>>, Out |-> <<>>]
    /\ bound = "unbound"
    /\ bindErr = NoErr
    /\ FuncPointer
    /\ IdleCall
    /\ IdleGate
    /\ frames = <<>>
    /\ IdleDl
    /\ linker = <<>>
    /\ \E fn \in ImpFns : imp = [fn |-> fn, how |-> "idle", ret |-> <<>>, err |-> NoErr]
    /\ cpu = <<>>

NextIMP == CallIMP

SpecIMP == InitIMP /\ [][NextIMP]_vars

\* fn's first two parameters exist and are of kind uintptr
TakesIdSel(fn) ==
    /\ Len(fn.In) >= 2
    /\ fn.In[1].kind = "uintptr"
    /\ fn.In[2].kind = "uintptr"

\* C23: IMP returns fn unchanged when fn is a uintptr; it panics when fn is
\* neither a uintptr nor a function; it panics with the (id, SEL) message,
\* inspecting no parameter that does not exist, when the function has fewer
\* than two parameters or its first or second parameter is not of kind
\* uintptr; otherwise it returns NewCallback(fn).
C23_IMPChecksItsArgument ==
    imp.how # "idle" =>
       /\ imp.fn.type.name = "uintptr" =>
             (imp.how = "returned" /\ imp.ret = <<imp.fn.v>>)
       /\ imp.fn.type.kind \notin {"uintptr", "func"} =>
             (imp.how = "panic" /\ imp.err = ErrImpNotFunc)
       /\ (imp.fn.type.kind = "func" /\ ~TakesIdSel(imp.fn)) =>
             (imp.how = "panic" /\ imp.err = ErrImpArgs)
       /\ (imp.fn.type.kind = "func" /\ TakesIdSel(imp.fn)) =>
             (imp.how = "returned" /\ imp.ret = <<NewCallback(imp.fn)>>)
       /\ imp.err # ErrInIndex

\* a function of one parameter was refused with the (id, SEL) message
C23_Witness ==
    /\ imp.how = "panic"
    /\ imp.fn.type.kind = "func"
    /\ Len(imp.fn.In) = 1
    /\ imp.fn.In[1].kind = "uintptr"
    /\ imp.err = ErrImpArgs

\* func(ID, SEL, int) became a callback
C23_CallbackMade ==
    /\ imp.how = "returned"
    /\ Len(imp.fn.In) = 3
    /\ imp.fn.In[1].name = "ID"
    /\ imp.fn.In[2].name = "SEL"
    /\ imp.ret = <<NewCallback(imp.fn)>>

\* a value of the named type ID, of kind uintptr, is not a function
C23_NamedUintptrRefused ==
    /\ imp.how = "panic"
    /\ imp.fn.type = GoType("ID", "uintptr")
    /\ imp.err = ErrImpNotFunc

-----------------------------------------------------------------------------
(* SpecPack: pointer-free structs of at most 24 bytes as the only argument   *)
(* of a call on amd64, under either addStruct.                               *)

I32x3 == S(<<"int32", "int32", "int32">>)
I64x1 == S(<<"int64">>)
I8I32 == S(<<"int8", "int32">>)
U8Bool == S(<<"uint8", "bool">>)
F32F64 == S(<<"float32", "float64">>)
F32I32 == S(<<"float32", "int32">>)
F32x3 == S(<<"float32", "float32", "float32">>)
I16x4 == S(<<"int16", "int16", "int16", "int16">>)
F32x2I32x2 == S(<<"float32", "float32", "int32", "int32">>)
I32x4I64 == S(<<"int32", "int32", "int32", "int32", "int64">>)

PackTypes ==
    {I32x3, I64x1, I8I32, U8Bool, F32F64, F32I32, F32x3, I16x4, F32x2I32x2,
     F32x2, I32x2, U8x4F32, I32x4I64}

PackSigs == {[In |-> <<st>>, Out |-> <<>>] : st \in PackTypes}

InitPack ==
    /\ GOARCH = "amd64"
    /\ impl \in {"func.go", "struct_amd64.go"}
    /\ GOOS = "darwin"
    /\ ty \in PackSigs
    /\ bound = "unbound"
    /\ bindErr = NoErr
    /\ FuncPointer
    /\ IdleCall
    /\ IdleGate
    /\ IdleNative
    /\ frames = <<>>
    /\ IdleDl

SpecPack == InitPack /\ [][NextStruct]_vars

\* the offset of field i of a struct type: Go lays the fields out in order,
\* each at its alignment
FieldOffset(t, i) ==
    AlignUp(EndOffset(SubSeq(t.elems, 1, i - 1), 1, 0), Align(t.elems[i]))

\* the fields of t whose first byte lies in eightbyte k (counted from 1)
FieldsIn(t, k) == {i \in 1..Len(t.elems) : FieldOffset(t, i) \div 8 = k - 1}

\* the number of eightbytes of a type: ceil(Size / 8)
NumEightbytes(t) == (Size(t) + 7) \div 8

\* the fields of v lying over byte o of its memory
FieldsAt(v, o) ==
    {i \in 1..Len(v.elems) :
        /\ FieldOffset(TypeOf(v), i) <= o
        /\ o < FieldOffset(TypeOf(v), i) + KindSize(v.elems[i].kind)}

\* byte o of the memory of the struct value v; -1 where no field lies
MemByte(v, o) ==
    IF FieldsAt(v, o) = {} THEN -1
    ELSE LET i == CHOOSE i \in FieldsAt(v, o) : TRUE
         IN  v.elems[i].v[o - FieldOffset(TypeOf(v), i) + 1]

\* eightbyte k of the memory of v
Eightbyte(v, k) == [j \in 1..8 |-> MemByte(v, 8 * (k - 1) + j - 1)]

\* the word w holds the field bytes of the eightbyte e
HoldsFields(w, e) == \A j \in 1..8 : e[j] # -1 => w[j] = e[j]

\* the word w holds the field bytes of e and zero everywhere else
HoldsExactly(w, e) == \A j \in 1..8 : w[j] = (IF e[j] = -1 THEN 0 ELSE e[j])

\* the eightbytes of v, in offset order, that c assigns to the class cls
RECURSIVE PickClass(_, _, _, _)
PickClass(v, c, cls, k) ==
    IF k > NumEightbytes(TypeOf(v)) THEN <<>>
    ELSE (IF c[k] = cls THEN <<Eightbyte(v, k)>> ELSE <<>>)
            \o PickClass(v, c, cls, k + 1)

\* the words ws hold, one for one and in order, the eightbytes es
HoldAll(ws, es) ==
    /\ Len(ws) = Len(es)
    /\ \A j \in 1..Len(es) : HoldsFields(ws[j], es[j])

\* the struct argument of SpecPack is being placed and the iteration returns
PackedStruct == GOARCH = "amd64" /\ AtStruct /\ Returned

\* C24: a pointer-free struct of S <= 64 bytes passed in registers emits
\* exactly ceil(S/8) slots, one per eightbyte in increasing offset order, each
\* holding the values of the fields of its eightbyte: no eightbyte is dropped
\* and no extra slot follows a 64-bit field.
C24_OneSlotPerEightbyte ==
    [][PackedStruct =>
         /\ Len(NewInts) + Len(NewFloats) + Len(NewStack)
               = NumEightbytes(TypeOf(args[argi]))
         /\ \E c \in [1..NumEightbytes(TypeOf(args[argi])) -> {"int", "float"}] :
               /\ HoldAll(NewInts \o NewStack, PickClass(args[argi], c, "int", 1))
               /\ HoldAll(NewFloats, PickClass(args[argi], c, "float", 1))]_vars

\* struct{int64} has put two words into the integer registers
C24_ExtraSlotAfterInt64 ==
    /\ pc = "raw"
    /\ TypeOf(args[1]) = I64x1
    /\ numInts = 2
    /\ sysargs[0] = args[1].elems[1].v
    /\ sysargs[1] = ZeroWord

\* struct{int32,int32,int32} has put one word into the integer registers
C24_TrailingEightbyteDropped ==
    /\ pc = "raw"
    /\ TypeOf(args[1]) = I32x3
    /\ numInts = 1
    /\ numFloats = 0
    /\ numStack = 0

\* C24 for the types whose fields fill one eightbyte with no 64-bit field
C24_SingleFullEightbyte ==
    [][(PackedStruct /\ TypeOf(args[argi]) \in {F32x2, I32x2, U8x4F32, I16x4, F32I32}) =>
         /\ Len(NewInts) + Len(NewFloats) + Len(NewStack) = 1
         /\ \A j \in 1..Len(NewInts \o NewFloats) :
               HoldsExactly((NewInts \o NewFloats)[j], Eightbyte(args[argi], 1))]_vars

\* C25: within each emitted eightbyte every field narrower than 8 bytes
\* occupies the bits starting at 8 * (its byte offset mod 8), at its natural
\* alignment, and the slot holds no bits of another eightbyte: when a struct
\* emits one slot per eightbyte, each slot holds its eightbyte's fields at
\* their offsets.
C25_FieldsAtTheirOffsets ==
    [][(/\ PackedStruct
        /\ Len(NewInts) + Len(NewFloats) + Len(NewStack)
              = NumEightbytes(TypeOf(args[argi])))
       => \E c \in [1..NumEightbytes(TypeOf(args[argi])) -> {"int", "float"}] :
             /\ HoldAll(NewInts \o NewStack, PickClass(args[argi], c, "int", 1))
             /\ HoldAll(NewFloats, PickClass(args[argi], c, "float", 1))]_vars

\* struct{int8,int32}: the int32, at offset 4, sits in bits 8..39 of the slot
C25_Int32PackedAtBit8 ==
    /\ pc = "raw"
    /\ TypeOf(args[1]) = I8I32
    /\ numInts = 1
    /\ sysargs[0][1] = args[1].elems[1].v[1]
    /\ SubSeq(sysargs[0], 2, 5) = args[1].elems[2].v
    /\ SubSeq(sysargs[0], 5, 8) # args[1].elems[2].v

\* struct{uint8,bool} with a true bool: the bool is OR-ed into bit 0 of the
\* slot, which the uint8 has set already, and byte 1 of the slot is empty
C25_BoolAtBit0 ==
    /\ pc = "raw"
    /\ TypeOf(args[1]) = U8Bool
    /\ args[1].elems[2].v = <<1>>
    /\ sysargs[0][1] = args[1].elems[1].v[1]
    /\ sysargs[0][2] = 0

\* struct{int32,int32,int32,int32,int64}: three slots, and the second holds
\* the bits of the first eightbyte as well
C25_SecondSlotHoldsFirst ==
    /\ pc = "raw"
    /\ TypeOf(args[1]) = I32x4I64
    /\ numInts = 3
    /\ \A j \in 1..8 :
          sysargs[1][j] = BitOr(Eightbyte(args[1], 1)[j], Eightbyte(args[1], 2)[j])
    /\ sysargs[1] # Eightbyte(args[1], 2)

\* eightbyte k of t is assembled from fields narrower than 8 bytes
NarrowEightbyte(t, k) ==
    /\ FieldsIn(t, k) # {}
    /\ \A i \in FieldsIn(t, k) : KindSize(t.elems[i].kind) < 8

\* all fields of eightbyte k of t are float32
AllFloat32(t, k) == \A i \in FieldsIn(t, k) : t.elems[i].kind = "float32"

\* eightbyte k of v as a word: the field bytes at their offsets, zero elsewhere
EightbyteWord(v, k) ==
    [j \in 1..8 |-> IF Eightbyte(v, k)[j] = -1 THEN 0 ELSE Eightbyte(v, k)[j]]

\* the word w is one of ws
InWords(w, ws) == \E j \in 1..Len(ws) : ws[j] = w

\* C26: an eightbyte assembled from fields narrower than 8 bytes goes to a
\* float slot if and only if all of its fields are float32, and to an integer
\* slot as soon as one of its fields is an integer or bool kind.
C26_ClassOfNarrowEightbyte ==
    [][PackedStruct =>
         \A k \in 1..NumEightbytes(TypeOf(args[argi])) :
            NarrowEightbyte(TypeOf(args[argi]), k) =>
               /\ AllFloat32(TypeOf(args[argi]), k) =>
                     ~InWords(EightbyteWord(args[argi], k), NewInts \o NewStack)
               /\ ~AllFloat32(TypeOf(args[argi]), k) =>
                     ~InWords(EightbyteWord(args[argi], k), NewFloats)]_vars

\* struct_amd64.go, struct{float32,float64}: the float32 is in the first
\* integer register, the float64 in the first float register
C26_Float32InIntegerRegister ==
    /\ pc = "raw"
    /\ impl = "struct_amd64.go"
    /\ TypeOf(args[1]) = F32F64
    /\ numInts = 1
    /\ numFloats = 1
    /\ sysargs[0] = ZExt(args[1].elems[1].v)
    /\ floats[0] = args[1].elems[2].v

\* C26 under the addStruct of func.go
C26_ClassOfNarrowEightbyte_func ==
    [][(PackedStruct /\ impl = "func.go") =>
         \A k \in 1..NumEightbytes(TypeOf(args[argi])) :
            NarrowEightbyte(TypeOf(args[argi]), k) =>
               /\ AllFloat32(TypeOf(args[argi]), k) =>
                     ~InWords(EightbyteWord(args[argi], k), NewInts \o NewStack)
               /\ ~AllFloat32(TypeOf(args[argi]), k) =>
                     ~InWords(EightbyteWord(args[argi], k), NewFloats)]_vars

\* struct{float32,float32}, a float slot, and struct{float32,int32}, an
\* integer slot
C26_FloatPairInFloatRegister ==
    /\ pc = "raw"
    /\ TypeOf(args[1]) = F32x2
    /\ numInts = 0
    /\ numFloats = 1
    /\ floats[0] = EightbyteWord(args[1], 1)

-----------------------------------------------------------------------------
(* The capacity check of RegisterFunc against the counters of the call,      *)
(* under SpecStruct.                                                         *)

\* ints, floats and stack as the loop of the capacity check leaves them
BindCounts == checkArgs(ty.In, 1, NewImage("count", <<>>))

\* C27: for every signature with a struct parameter that RegisterFunc
\* accepts, the integer, float and stack counts of the bind-time capacity
\* check equal numInts, numFloats and numStack of the call once every
\* argument is placed, and no call indexes past the stack buffer.
C27_BindCountsAreCallCounts ==
    /\ (bound = "bound" /\ pc \in {"raw", "ret", "done"}) =>
          /\ BindCounts.numInts = numInts
          /\ BindCounts.numFloats = numFloats
          /\ BindCounts.numStack = numStack
    /\ bound = "bound" => callErr # ErrIndex

\* accepted at bind time with a count of at most nine stack words, the call
\* has written past the ninth
C27_IndexPastStackBuffer ==
    /\ bound = "bound"
    /\ BindCounts.numStack <= maxArgs - numOfIntegerRegisters
    /\ pc = "panic"
    /\ callErr = ErrIndex

\* six integers and struct{int64,int64} on amd64: nine integers and no stack
\* word counted at bind time, six registers and three stack words in the call
C27_OverflowCountedAsRegisters ==
    /\ GOARCH = "amd64"
    /\ pc = "raw"
    /\ Len(args) = 7
    /\ TypeOf(args[7]) = I64x2
    /\ BindCounts.numInts = 9
    /\ BindCounts.numStack = 0
    /\ numInts = 6
    /\ numStack = 3

\* the counts agree for a struct that fits the free registers
C27_CountsAgreeInRegisters ==
    (/\ bound = "bound"
     /\ pc \in {"raw", "ret", "done"}
     /\ GOARCH = "amd64"
     /\ Len(args) = 1
     /\ Size(TypeOf(args[1])) <= 16) =>
       /\ BindCounts.numInts = numInts
       /\ BindCounts.numFloats = numFloats
       /\ BindCounts.numStack = numStack

-----------------------------------------------------------------------------
(* SpecVarMany: signatures of nearly maxArgs fixed parameters followed by    *)
(* []interface{}, called with up to MaxVariadic elements.                    *)

\* the numbers of fixed int64 parameters: with the slice counted as one
\* integer the capacity check accepts each of them
ManyFixed == {maxArgs - 3, maxArgs - 2, maxArgs - 1}

VarManySigs ==
    {[In |-> Fields(Rep("int64", a)) \o <<VariadicT>>, Out |-> <<>>] : a \in ManyFixed}

InitVarMany ==
    /\ \E tg \in ScalarTargets : GOARCH = tg.arch /\ GOOS = tg.os
    /\ impl = "func.go"
    /\ ty \in VarManySigs
    /\ bound = "unbound"
    /\ bindErr = NoErr
    /\ FuncPointer
    /\ IdleCall
    /\ IdleGate
    /\ IdleNative
    /\ frames = <<>>
    /\ IdleDl

SpecVarMany == InitVarMany /\ [][NextVar]_vars

\* the number of words of sysargs the stack closure may fill: the slice
\* sysargs[numOfIntegerRegisters():], or all of sysargs when every argument
\* is positional
StackCapacity ==
    IF CallConv = "sysv" THEN maxArgs - numOfIntegerRegisters ELSE maxArgs

C28_CountersWithinCapacity ==
    (bound = "bound" /\ LastIsSlice) =>
       /\ numInts <= numOfIntegerRegisters
       /\ numFloats <= numOfFloats
       /\ numStack <= StackCapacity

\* fourteen fixed integers and two integer elements on darwin/amd64: bound,
\* and the call has panicked at the sixteenth word
C28_ElementPastStack ==
    /\ GOOS = "darwin"
    /\ GOARCH = "amd64"
    /\ bound = "bound"
    /\ Len(ty.In) = maxArgs
    /\ Len(args) = maxArgs + 1
    /\ args[maxArgs + 1].kind = "int64"
    /\ pc = "panic"
    /\ callErr = ErrIndex
    /\ numStack = maxArgs - numOfIntegerRegisters

\* fourteen fixed integers and three float elements: the floats take float
\* registers and the call goes through
C28_FloatElementsFit ==
    /\ bound = "bound"
    /\ CallConv = "sysv"
    /\ Len(ty.In) = maxArgs
    /\ Len(args) = maxArgs + 2
    /\ pc = "raw"
    /\ numFloats = 3
    /\ numStack = maxArgs - 1 - numOfIntegerRegisters

-----------------------------------------------------------------------------
(* SpecTrip: func(x K) K for every scalar kind K, bound to a native function *)
(* that returns the bits of its argument slot.                               *)

\* the bytes the values are made of: zero, the sign bit alone, all ones
TripBytes == {0, 128, 255}

\* float32 patterns besides: a signalling NaN, a quiet NaN, infinity, 1.0
TripFloat32 == {<<1, 0, 160, 127>>, <<1, 0, 224, 127>>, <<0, 0, 128, 127>>, <<0, 0, 128, 63>>}

TripKinds == SignedKinds \cup UnsignedKinds \cup {"bool", "float32", "float64"}

\* the byte strings of length n: the lowest and the highest byte drawn from
\* TripBytes, the bytes between them all zero or all ones
TripStrings(n) ==
    {[j \in 1..n |-> IF j = 1 THEN lo ELSE IF j = n THEN hi ELSE mid] :
        lo \in TripBytes, hi \in TripBytes, mid \in {0, 255}}

\* the values of kind k
TripValues(k) ==
    IF k = "bool" THEN {V("bool", <<0>>), V("bool", <<1>>)}
    ELSE {V(k, b) : b \in TripStrings(KindSize(k))
                          \cup (IF k = "float32" THEN TripFloat32 ELSE {})}

TripSigs == {[In |-> <<T(k)>>, Out |-> <<T(k)>>] : k \in TripKinds}

\* the slot the argument was encoded into
EncodedSlot == IF numFloats > 0 THEN floats[0] ELSE sysargs[0]

InitTrip ==
    /\ \E tg \in ScalarTargets : GOARCH = tg.arch /\ GOOS = tg.os
    /\ impl = "func.go"
    /\ ty \in TripSigs
    /\ bound = "unbound"
    /\ bindErr = NoErr
    /\ FuncPointer
    /\ IdleCall
    /\ IdleGate
    /\ IdleNative
    /\ frames = <<>>
    /\ IdleDl

NextTrip ==
    \/ RegisterFunc
    \/ \E x \in TripValues(ty.In[1].kind) : CallBegin(<<x>>)
    \/ CallArg
    \/ RawCall
    \/ RawReturn({EncodedSlot})
    \/ CallReturn

SpecTrip == InitTrip /\ [][NextTrip]_vars

\* x with a float32 NaN made quiet, every other value as it is
QuietNaN(x) ==
    IF x.kind = "float32" /\ IsNaN32(x.v) THEN [x EXCEPT !.v[3] = BitOr(@, 64)] ELSE x

\* C29, as claimed: for every scalar kind K and every value x of K, the
\* argument slot holds x sign-extended (signed kinds), zero-extended
\* (unsigned kinds, float32), as 0 or 1 (bool) or as its 64 bits (float64),
\* and decoding a return slot holding those bits with return kind K yields x.
C29_RoundTrip ==
    /\ pc \in {"raw", "ret", "done"} => EncodedSlot = SlotOf(args[1])
    /\ pc = "done" => result = <<args[1]>>

\* C29, amended: the same, except that a float32 NaN is encoded, and comes
\* back, as the quiet NaN with the same sign and payload.
C29_RoundTripQuietNaN ==
    /\ pc \in {"raw", "ret", "done"} => EncodedSlot = SlotOf(QuietNaN(args[1]))
    /\ pc = "done" => result = <<QuietNaN(args[1])>>

\* the int8 -128 went out as 0xFFFFFFFFFFFFFF80 and came back as -128
C29_Witness ==
    /\ pc = "done"
    /\ args = <<V("int8", <<128>>)>>
    /\ sysargs[0] = <<128, 255, 255, 255, 255, 255, 255, 255>>
    /\ r1 = sysargs[0]
    /\ result = <<V("int8", <<128>>)>>

\* the float32 signalling NaN 7FA00001 went out and came back as 7FE00001
C29_SignallingNaNRoundTrip ==
    /\ pc = "done"
    /\ args = <<V("float32", <<1, 0, 160, 127>>)>>
    /\ EncodedSlot = <<1, 0, 224, 127, 0, 0, 0, 0>>
    /\ result = <<V("float32", <<1, 0, 224, 127>>)>>

-----------------------------------------------------------------------------
(* SpecAsm: syscall9X of sys_darwin_arm64.s, instruction by instruction, on  *)
(* the argument struct that syscall_syscall9X builds.                        *)

\* register 31 is the stack pointer
RSP == 31
IntRegs == 0..12 \cup {RSP}
FloatRegs == 0..7

\* where the argument struct, the g0 stack and errno lie
StructAddrs == {16 * 64}
StackTops == {16 * 256, 16 * 512}
ErrnoAddr == 16 * 32

\* the offsets of the struct's fields: fn, a1..a9, r1, r2, err
FieldOffsets == {8 * j : j \in 0..12}

\* the words a native function may return in R0: 0, 1 and -1
FnResults == {0, 1, -1}

\* what a register that the callee may overwrite holds afterwards
Clobbered == {0, 55}

\* args := struct{ fn, a1, ..., a9, r1, r2, err uintptr }{fn, a1, ..., err}:
\* argument i of pattern p, the results zero
NewArgs(p, base) ==
    [a \in {base + o : o \in FieldOffsets} |->
        IF a = base THEN 7
        ELSE IF a <= base + 72 THEN 100 * p + (a - base) \div 8
        ELSE 0]

\* the instructions of syscall9X, lines 28 to 71
syscall9X ==
    << <<"SUB", 16, RSP>>,           \* SUB  $16, RSP
       <<"ST", 0, 8, RSP>>,          \* MOVD R0, 8(RSP)
       <<"LD", 0, 0, 12>>,           \* MOVD 0(R0), R12
       <<"LD", 16, 0, 1>>,           \* MOVD 16(R0), R1
       <<"LD", 24, 0, 2>>,           \* MOVD 24(R0), R2
       <<"LD", 32, 0, 3>>,           \* MOVD 32(R0), R3
       <<"LD", 40, 0, 4>>,           \* MOVD 40(R0), R4
       <<"LD", 48, 0, 5>>,           \* MOVD 48(R0), R5
       <<"LD", 56, 0, 6>>,           \* MOVD 56(R0), R6
       <<"LD", 64, 0, 7>>,           \* MOVD 64(R0), R7
       <<"LD", 72, 0, 8>>,           \* MOVD 72(R0), R8
       <<"FMOV", 0, 0>>,             \* FMOVD R0, F0
       <<"FMOV", 1, 1>>,             \* FMOVD R1, F1
       <<"FMOV", 2, 2>>,             \* FMOVD R2, F2
       <<"FMOV", 3, 3>>,             \* FMOVD R3, F3
       <<"FMOV", 4, 4>>,             \* FMOVD R4, F4
       <<"FMOV", 5, 5>>,             \* FMOVD R5, F5
       <<"FMOV", 6, 6>>,             \* FMOVD R6, F6
       <<"FMOV", 7, 7>>,             \* FMOVD R7, F7
       <<"ST", 8, 0, RSP>>,          \* MOVD R8, (RSP)
       <<"LD", 8, 0, 0>>,            \* MOVD 8(R0), R0
       <<"BL", 12>>,                 \* BL   (R12)
       <<"LD", 8, RSP, 2>>,          \* MOVD 8(RSP), R2
       <<"ADD", 16, RSP>>,           \* ADD  $16, RSP
       <<"ST", 0, 80, 2>>,           \* MOVD R0, 80(R2)
       <<"ST", 1, 88, 2>>,           \* MOVD R1, 88(R2)
       <<"CMP", -1, 0>>,             \* CMP  $-1, R0
       <<"BNE", 36>>,                \* BNE  ok
       <<"SUB", 16, RSP>>,           \* SUB  $16, RSP
       <<"ST", 2, 0, RSP>>,          \* MOVD R2, (RSP)
       <<"BLsym", "libc_error">>,    \* BL   libc_error(SB)
       <<"LDW", 0, 0, 0>>,           \* MOVW (R0), R0
       <<"LD", 0, RSP, 2>>,          \* MOVD (RSP), R2
       <<"ADD", 16, RSP>>,           \* ADD  $16, RSP
       <<"ST", 0, 96, 2>>,           \* MOVD R0, 96(R2)
       <<"RET">> >>                  \* ok: RET

\* one instruction that neither branches nor calls: SUB and ADD of an
\* immediate, MOVD to and from memory, FMOVD from an integer register, CMP
Exec(c, ins) ==
    LET next == [c EXCEPT !.at = @ + 1]
    IN  CASE ins[1] = "SUB" -> [next EXCEPT !.R[ins[3]] = @ - ins[2]]
          [] ins[1] = "ADD" -> [next EXCEPT !.R[ins[3]] = @ + ins[2]]
          [] ins[1] = "ST" -> [next EXCEPT !.mem[c.R[ins[4]] + ins[3]] = c.R[ins[2]]]
          [] ins[1] \in {"LD", "LDW"} -> [next EXCEPT !.R[ins[4]] = c.mem[c.R[ins[3]] + ins[2]]]
          [] ins[1] = "FMOV" -> [next EXCEPT !.F[ins[3]] = c.R[ins[2]]]
          [] ins[1] = "CMP" -> [next EXCEPT !.Z = (c.R[ins[3]] = ins[2])]

\* the instruction the processor is at
Instr == syscall9X[cpu.at]

notCpu ==
    <<ty, bound, bindErr, callVars, targetVars, dlVars, bindVars, gateVars, frames,
      linker, imp>>

\* a straight-line instruction executes
Step ==
    /\ cpu.in = "syscall9X"
    /\ Instr[1] \in {"SUB", "ADD", "ST", "LD", "LDW", "FMOV", "CMP"}
    /\ cpu' = Exec(cpu, Instr)
    /\ UNCHANGED notCpu

\* BL (R12): the native function starts with the registers and the stack as
\* they are
BranchToFn ==
    /\ cpu.in = "syscall9X"
    /\ Instr[1] = "BL"
    /\ cpu' = [cpu EXCEPT !.in = "fn", !.called = cpu.R[Instr[2]]]
    /\ UNCHANGED notCpu

\* the native function returns: its results in R0 and R1, the other
\* argument and scratch registers overwritten, the stack pointer and the
\* caller's stack as they were
FnReturn ==
    /\ cpu.in = "fn"
    /\ \E x \in FnResults, y \in FnResults, g \in Clobbered :
          cpu' = [cpu EXCEPT !.in = "syscall9X",
                             !.at = @ + 1,
                             !.R = [r \in IntRegs |->
                                      IF r = 0 THEN x ELSE IF r = 1 THEN y
                                      ELSE IF r = RSP THEN cpu.R[RSP] ELSE g],
                             !.F = [f \in FloatRegs |-> g],
                             !.ret = <<x, y>>]
    /\ UNCHANGED notCpu

\* BNE ok: taken when the comparison found R0 different from -1
BranchNotEqual ==
    /\ cpu.in = "syscall9X"
    /\ Instr[1] = "BNE"
    /\ cpu' = [cpu EXCEPT !.at = IF cpu.Z THEN @ + 1 ELSE Instr[2]]
    /\ UNCHANGED notCpu

\* BL libc_error(SB): the address of errno in R0, the scratch registers
\* overwritten, the saved struct pointer still on the stack
CallLibcError ==
    /\ cpu.in = "syscall9X"
    /\ Instr[1] = "BLsym"
    /\ \E g \in Clobbered :
          cpu' = [cpu EXCEPT !.at = @ + 1,
                             !.R = [r \in IntRegs |->
                                      IF r = 0 THEN ErrnoAddr
                                      ELSE IF r = RSP THEN cpu.R[RSP] ELSE g]]
    /\ UNCHANGED notCpu

\* RET: back in runtime.libcCall
Ret ==
    /\ cpu.in = "syscall9X"
    /\ Instr[1] = "RET"
    /\ cpu' = [cpu EXCEPT !.in = "returned"]
    /\ UNCHANGED notCpu

\* libcCall has switched to the g0 stack and calls syscall9X with the
\* address of args in R0; the other registers hold what was left in them
InitAsm ==
    /\ GOARCH = "arm64"
    /\ GOOS = "darwin"
    /\ impl = "func.go"
    /\ ty = [In |-> <<>>, Out |-> <<>>]
    /\ bound = "unbound"
    /\ bindErr = NoErr
    /\ FuncPointer
    /\ IdleCall
    /\ IdleGate
    /\ frames = <<>>
    /\ IdleDl
    /\ linker = <<>>
    /\ imp = <<>>
    /\ \E p \in 1..2, base \in StructAddrs, sp \in StackTops, g \in Clobbered, e \in {2, 13} :
          cpu = [in |-> "syscall9X", at |-> 1, Z |-> FALSE,
                 R |-> [r \in IntRegs |-> IF r = 0 THEN base ELSE IF r = RSP THEN sp ELSE g],
                 F |-> [f \in FloatRegs |-> g],
                 mem |-> NewArgs(p, base) @@ (ErrnoAddr :> e)
                           @@ [a \in {sp - 16, sp - 8} |-> g],
                 args |-> base, sp |-> sp, called |-> 0, ret |-> <<>>]

NextAsm ==
    \/ Step
    \/ BranchToFn
    \/ FnReturn
    \/ BranchNotEqual
    \/ CallLibcError
    \/ Ret

SpecAsm == InitAsm /\ [][NextAsm]_vars

\* argument a_i of the struct, i in 1..9
ArgOf(i) == cpu.mem[cpu.args + 8 * i]

\* the processor is at the branch to fn
AtBranch == cpu.in = "syscall9X" /\ Instr[1] = "BL"

\* the processor has returned from fn and stored the results
AfterStore == cpu.in = "syscall9X" /\ Instr[1] = "CMP"

\* C30: immediately before the branch to fn, for every i in 1..8 both the
\* integer register R(i-1) and the float register F(i-1) hold a_i, and a9 is
\* at the top of the stack; after fn returns, R0 and R1 are stored to r1 and
\* r2 of the struct and the stack pointer has its value on entry.
C30_RegistersHoldArguments ==
    /\ AtBranch =>
          /\ \A i \in 1..8 : cpu.R[i - 1] = ArgOf(i) /\ cpu.F[i - 1] = ArgOf(i)
          /\ cpu.mem[cpu.R[RSP]] = ArgOf(9)
    /\ AfterStore =>
          /\ cpu.mem[cpu.args + 80] = cpu.ret[1]
          /\ cpu.mem[cpu.args + 88] = cpu.ret[2]
          /\ cpu.R[RSP] = cpu.sp

\* at the branch F0 holds the address of the argument struct, not a1
C30_F0HoldsStructPointer ==
    /\ AtBranch
    /\ cpu.R[0] = ArgOf(1)
    /\ cpu.F[0] = cpu.args
    /\ cpu.F[0] # ArgOf(1)

\* C30 without the first float register
C30_AllButF0 ==
    /\ AtBranch =>
          /\ cpu.R[12] = cpu.mem[cpu.args]
          /\ \A i \in 1..8 : cpu.R[i - 1] = ArgOf(i)
          /\ \A i \in 2..8 : cpu.F[i - 1] = ArgOf(i)
          /\ cpu.mem[cpu.R[RSP]] = ArgOf(9)
          /\ cpu.R[RSP] = cpu.sp - 16
    /\ AfterStore =>
          /\ cpu.mem[cpu.args + 80] = cpu.ret[1]
          /\ cpu.mem[cpu.args + 88] = cpu.ret[2]
          /\ cpu.R[RSP] = cpu.sp
    /\ cpu.in = "returned" =>
          /\ cpu.R[RSP] = cpu.sp
          /\ cpu.mem[cpu.args + 96] = (IF cpu.ret[1] = -1 THEN cpu.mem[ErrnoAddr] ELSE 0)

\* fn returned -1 and syscall9X has returned with errno in err
C30_ErrnoSaved ==
    /\ cpu.in = "returned"
    /\ cpu.ret = <<-1, 1>>
    /\ cpu.mem[cpu.args + 80] = -1
    /\ cpu.mem[cpu.args + 88] = 1
    /\ cpu.mem[cpu.args + 96] = 13

=============================================================================
